---- MODULE Spec2Model ----
(***************************************************************************)
(* Model of minikube's node lifecycle orchestrator.                        *)
(*                                                                         *)
(*   Spec     machine.StartHost (src/unnamed/part_001): the machines lock, *)
(*            the existence check, createHost with its timedCreateHost     *)
(*            race, postStartSetup, saveHost and the deferred release,     *)
(*            for several concurrent calls.                                *)
(*   LiveSpec the same, with the scheduling fairness of the Go runtime.    *)
(*   KicSpec  kic Driver.Create (src/pkg/drivers/kic/kic.go).              *)
(***************************************************************************)
EXTENDS Naturals, Sequences, FiniteSets

VARIABLES
    \* ---- machine.StartHost ----
    pc,             \* position of each StartHost call
    cfgName,        \* driver.MachineName(*cfg, *n) of each call
    cfgDriver,      \* cfg.Driver of the cluster config the calls are given
    lockHolder,     \* the mutex of each lock key: 0 when free, else the holding call
    machines,       \* machine names the backend api reports as existing
    log,            \* per call: the calls it has made, in order
    existsResult,   \* per call: what api.Exists returned
    createTask,     \* per call: the goroutine running api.Create
    createHangs,    \* per call: whether this api.Create never returns
    createErr,      \* per call: the err variable the creation goroutine writes
    createFinished, \* per call: messages buffered in the createFinished channel
    timeout,        \* per call: messages buffered in the timeout channel
    timerTask,      \* per call: the goroutine sleeping for the timeout
    tchResult,      \* per call: what timedCreateHost returned
    releases,       \* per call: how many times releaser.Release() ran
    retHost,        \* per call: StartHost's returned *host.Host
    retExisted,     \* per call: StartHost's returned bool
    retErr,         \* per call: StartHost's returned error
    \* ---- kic Driver.Create ----
    kpc,            \* position of Driver.Create
    container,      \* the container with the target name: absent, user or minikube
    ociBinary,      \* d.NodeConfig.OCIBinary
    foundExisting,  \* what oci.ContainerExists answered
    kicLog,         \* the oci calls Driver.Create has made, in order
    preloadTask,    \* the preload extraction goroutine
    kicErr,         \* what Driver.Create returned
    \* ---- node: artifact cache coordinator ----
    cacheImagesFlag,     \* viper.GetBool("cache-images")
    cc,                  \* the caller's *config.ClusterConfig
    ccBefore,            \* cc as it was before any call
    mpc,                 \* position of the caller of the coordinator
    cacheBegins,         \* the calls of beginCacheKubernetesImages, in order
    cacheTasks,          \* the tasks of the cache group
    cacheWaitSt,         \* waitCacheRequiredImages: no, called, returned
    kicTask,             \* stage of the base-image download task
    kicAttempts,         \* the WriteImageToDaemon calls of the task, in order
    kicTaskErr,          \* what the download task returned
    ErrGithubNeedsLogin, \* package variable image.ErrGithubNeedsLogin
    ErrNeedsLogin,       \* package variable image.ErrNeedsLogin
    kicWaitSt,           \* waitDownloadKicArtifacts: no, called, returned, exited
    errorLog,            \* messages logged or shown by the wait functions
    daemonImages,        \* the image references in the local docker daemon
    imagesListed,        \* how `docker images` ended in ExistsImageInDaemon
    \* ---- postStartSetup on one unit ----
    unitDriver,          \* the driver of the unit
    unitDirs,            \* the directories that exist in the unit
    setupRuns,           \* how many times postStartSetup ran on the unit
    lastSetup,           \* the last run: its inputs, calls and result
    \* ---- engineOptions ----
    proxyEnv,            \* proxy.SetDockerEnv()
    cfgDockerEnv,        \* cfg.DockerEnv
    uniqueEnvs,          \* engine.Options.Env, once engineOptions has run
    \* ---- handleDownloadOnly ----
    downloadOnly,        \* viper.GetBool("download-only")
    hdo,                 \* position of handleDownloadOnly
    hdoLog,              \* the calls handleDownloadOnly made, in order
    \* ---- status command ----
    statuses,            \* the *Status values collected so far
    hostStatuses,        \* what machine.Status answered for each of them
    statusExited,        \* os.Exit(exitCode(statuses)) has run
    statusExitCode,      \* the exit code of the status command
    \* ---- updateExistingConfigFromFlags ----
    existingCfg,         \* the stored *config.ClusterConfig
    changedFlags,        \* the flags for which cmd.Flags().Changed is true
    viper,               \* the flag values viper returns
    updated,             \* updateExistingConfigFromFlags has returned
    updatedCfg,          \* the config it returned
    \* ---- kic Driver.Remove, Restart, Start, Stop ----
    node,                \* the node container: "absent", "Running", "Stopped"
    lastOp,              \* the last driver call: what it called and returned
    \* ---- interpretWaitFlag ----
    NoComponents,        \* the map kverify.NoComponents, shared by all calls
    lastWait             \* the last call: its --wait value and the map returned

shVars == <<pc, cfgName, cfgDriver, lockHolder, machines, log, existsResult,
            createTask, createHangs, createErr, createFinished, timeout,
            timerTask, tchResult, releases, retHost, retExisted, retErr>>
kicVars == <<kpc, container, ociBinary, foundExisting, kicLog, preloadTask, kicErr>>
cacheVars == <<cacheImagesFlag, cc, ccBefore, mpc, cacheBegins, cacheTasks,
               cacheWaitSt, kicTask, kicAttempts, kicTaskErr,
               ErrGithubNeedsLogin, ErrNeedsLogin, kicWaitSt, errorLog,
               daemonImages, imagesListed>>
unitVars == <<unitDriver, unitDirs, setupRuns, lastSetup>>
envVars == <<proxyEnv, cfgDockerEnv, uniqueEnvs>>
dlVars == <<downloadOnly, hdo, hdoLog>>
statusVars == <<statuses, hostStatuses, statusExited, statusExitCode>>
flagVars == <<existingCfg, changedFlags, viper, updated, updatedCfg>>
opVars == <<node, lastOp>>
waitVars == <<NoComponents, lastWait>>
vars == <<shVars, kicVars, cacheVars, unitVars, envVars, dlVars, statusVars,
          flagVars, opVars, waitVars>>

(***************************************************************************)
(* Bounds                                                                  *)
(***************************************************************************)
NumCalls == 2
MaxCacheBegins == 2
MaxSetupRuns == 3
MaxEnvLen == 2
MaxNodes == 2
Calls == 1..NumCalls
Names == {"minikube", "minikube-m02"}
Drivers == {"bogus", "mock", "docker"}

(***************************************************************************)
(* Errors: nil is the empty chain; an error is its chain of context tags,  *)
(* outermost first.                                                        *)
(***************************************************************************)
Nil == <<>>
Pending == <<"(pending)">>
NewError(msg) == <<msg>>
\* errors.Wrap / errors.Wrapf of github.com/pkg/errors: nil stays nil.
Wrap(err, msg) == IF err = Nil THEN Nil ELSE <<msg>> \o err

Count(s, e) == Cardinality({i \in DOMAIN s : s[i] = e})
Has(s, e) == \E i \in DOMAIN s : s[i] = e

(***************************************************************************)
(* machine.StartHost                                                       *)
(***************************************************************************)
\* acquireMachinesLock: the lock spec is built from the path
\* <MiniPath>/machines; the machine name is only logged.
LockKeyByName(name) == name
LockKey(name) == "machines"
LockKeys == {LockKey(n) : n \in Names}

\* mutex.Acquire(spec) succeeds only while nobody holds the mutex.
MutexFreeBroken(key) == TRUE
MutexFree(key) == lockHolder[key] = 0

\* registry.Driver(cfg.Driver).Empty(): no driver registered under the name.
Registered == {"mock", "docker"}
DefEmptyNever(driver) == FALSE
DefEmpty(driver) == driver \notin Registered

\* driver.IsMock(h.DriverName)
IsMockNever(driver) == FALSE
IsMock(driver) == driver = "mock"

\* StartHost's deferred releaser.Release(): every return after a successful
\* acquisition runs it; a return before that has nothing to release.
ExitPcNoDefer(acquired) == "done"
ExitPcAlwaysRelease(acquired) == "release"
ExitPc(acquired) == IF acquired THEN "release" ELSE "done"

\* StartHost: if !exists { createHost } else { fixHost }
PathForSwapped(exists) == IF exists THEN "createHost" ELSE "fixHost"
PathForAlwaysCreate(exists) == "createHost"
PathFor(exists) == IF exists THEN "fixHost" ELSE "createHost"

\* make(chan bool, 1): the capacity of the timeout and createFinished channels.
ChanCap == 1

\* timedCreateHost's select: the branch taken decides the result.
TimeoutErr == NewError("create host timed out")
SelectOutcomeIgnoresErr(branch, cerr) ==
    IF branch = "createFinished" THEN Nil ELSE TimeoutErr
SelectOutcomeTimeoutOk(branch, cerr) ==
    IF branch = "createFinished"
    THEN (IF cerr # Nil THEN Wrap(cerr, "create") ELSE Nil)
    ELSE Nil
SelectOutcome(branch, cerr) ==
    IF branch = "createFinished"
    THEN (IF cerr # Nil THEN Wrap(cerr, "create") ELSE Nil)
    ELSE TimeoutErr

\* createHost: the host returned with a post-start or saveHost error is h.
HostOnLateFailureDropped(h) == "nil"
HostOnLateFailure(h) == h

\* postStartSetup's result for the given step outcomes.
postStartSetupErr(driver, runnerOk, mkdirOk, syncOk) ==
    IF IsMock(driver) THEN Nil
    ELSE IF ~runnerOk THEN Wrap(NewError("runner"), "command runner")
    ELSE IF ~mkdirOk THEN Wrap(NewError("mkdir"), "sudo mkdir")
    ELSE IF ~syncOk THEN NewError("sync assets")
    ELSE Nil

\* driver.IsVM(mc.Driver) || driver.IsKIC(mc.Driver)
IsVMOrKIC(driver) == driver \in {"docker", "virtualbox"}

\* driver.BareMetal(mc.Driver)
BareMetal(driver) == driver = "none"

\* The calls postStartSetup makes, in order, for the given step outcomes:
\* none for a mock driver; else CommandRunner, then the mkdir command, then
\* the OS release of the guest, then syncLocalAssets, each only after the
\* one before has succeeded.
postStartSetupCallsSyncFirst(driver, runnerOk, mkdirOk) ==
    IF IsMock(driver) THEN <<>>
    ELSE IF ~runnerOk THEN <<"CommandRunner">>
    ELSE <<"CommandRunner", "syncLocalAssets", "mkdir">>
postStartSetupCalls(driver, runnerOk, mkdirOk) ==
    IF IsMock(driver) THEN <<>>
    ELSE IF ~runnerOk THEN <<"CommandRunner">>
    ELSE IF ~mkdirOk THEN <<"CommandRunner", "mkdir">>
    ELSE <<"CommandRunner", "mkdir">>
         \o (IF BareMetal(driver) THEN <<"showLocalOsRelease">> ELSE <<>>)
         \o (IF IsVMOrKIC(driver) THEN <<"logRemoteOsRelease">> ELSE <<>>)
         \o <<"syncLocalAssets">>

Return(c, h, existed, err, acquired) ==
    /\ retHost' = [retHost EXCEPT ![c] = h]
    /\ retExisted' = [retExisted EXCEPT ![c] = existed]
    /\ retErr' = [retErr EXCEPT ![c] = err]
    /\ pc' = [pc EXCEPT ![c] = ExitPc(acquired)]

Logged(c, events) == log' = [log EXCEPT ![c] = @ \o events]

InitStartHost ==
    /\ pc = [c \in Calls |-> "idle"]
    /\ cfgName = [c \in Calls |-> "minikube"]
    /\ cfgDriver \in Drivers
    /\ lockHolder = [k \in LockKeys |-> 0]
    /\ machines \in SUBSET Names
    /\ log = [c \in Calls |-> <<>>]
    /\ existsResult = [c \in Calls |-> "none"]
    /\ createTask = [c \in Calls |-> "none"]
    /\ createHangs = [c \in Calls |-> FALSE]
    /\ createErr = [c \in Calls |-> Nil]
    /\ createFinished = [c \in Calls |-> 0]
    /\ timeout = [c \in Calls |-> 0]
    /\ timerTask = [c \in Calls |-> "none"]
    /\ tchResult = [c \in Calls |-> Pending]
    /\ releases = [c \in Calls |-> 0]
    /\ retHost = [c \in Calls |-> "nil"]
    /\ retExisted = [c \in Calls |-> FALSE]
    /\ retErr = [c \in Calls |-> Nil]

\* A caller invokes StartHost(api, cfg, n) for some node of the cluster.
StartHost(c) ==
    /\ pc[c] = "idle"
    /\ \E name \in Names : cfgName' = [cfgName EXCEPT ![c] = name]
    /\ pc' = [pc EXCEPT ![c] = "acquire"]
    /\ UNCHANGED <<cfgDriver, lockHolder, machines, log, existsResult,
                   createTask, createHangs, createErr, createFinished, timeout,
                   timerTask, tchResult, releases, retHost, retExisted, retErr>>
    /\ UNCHANGED <<kicVars, cacheVars, unitVars, envVars, dlVars, statusVars, flagVars, opVars, waitVars>>

\* releaser, err := acquireMachinesLock(machineName), and the return on error.
\* mutex.Acquire gives up with a timeout error while another holder keeps it.
acquireMachinesLock(c) ==
    /\ pc[c] = "acquire"
    /\ LET key == LockKey(cfgName[c]) IN
        \/ /\ MutexFree(key)
           /\ lockHolder' = [lockHolder EXCEPT ![key] = c]
           /\ Logged(c, <<"Acquire">>)
           /\ pc' = [pc EXCEPT ![c] = "exists"]
           /\ UNCHANGED <<retHost, retExisted, retErr>>
        \/ /\ lockHolder[key] # 0
           /\ Return(c, "nil", FALSE,
                     Wrap(NewError("mutex timeout"), "boot lock"), FALSE)
           /\ UNCHANGED <<lockHolder, log>>
    /\ UNCHANGED <<cfgName, cfgDriver, machines, existsResult, createTask,
                   createHangs, createErr, createFinished, timeout, timerTask,
                   tchResult, releases>>
    /\ UNCHANGED <<kicVars, cacheVars, unitVars, envVars, dlVars, statusVars, flagVars, opVars, waitVars>>

\* exists, err := api.Exists(machineName) and the branch on it.
existsCheck(c) ==
    /\ pc[c] = "exists"
    /\ Logged(c, <<"Exists">>)
    /\ \/ /\ existsResult' = [existsResult EXCEPT ![c] = "error"]
          /\ Return(c, "nil", FALSE, Wrap(NewError("store"), "exists"), TRUE)
       \/ LET exists == cfgName[c] \in machines IN
          /\ existsResult' = [existsResult EXCEPT ![c] =
                                 IF exists THEN "true" ELSE "false"]
          /\ retExisted' = [retExisted EXCEPT ![c] = exists]
          /\ pc' = [pc EXCEPT ![c] = PathFor(exists)]
          /\ UNCHANGED <<retHost, retErr>>
    /\ UNCHANGED <<cfgName, cfgDriver, lockHolder, machines, createTask,
                   createHangs, createErr, createFinished, timeout, timerTask,
                   tchResult, releases>>
    /\ UNCHANGED <<kicVars, cacheVars, unitVars, envVars, dlVars, statusVars, flagVars, opVars, waitVars>>

\* createHost up to api.NewHost: the registry lookup, def.Config,
\* json.Marshal and api.NewHost, each returning (nil, err) on failure.
createHost(c) ==
    /\ pc[c] = "createHost"
    /\ \/ /\ DefEmpty(cfgDriver)
          /\ Logged(c, <<"createHost">>)
          /\ Return(c, "nil", retExisted[c],
                    NewError("unsupported/missing driver"), TRUE)
       \/ /\ ~DefEmpty(cfgDriver)
          /\ \/ /\ Logged(c, <<"createHost">>)
                /\ \E e \in {"config", "marshal"} :
                      Return(c, "nil", retExisted[c], Wrap(NewError(e), e), TRUE)
             \/ /\ Logged(c, <<"createHost", "NewHost">>)
                /\ Return(c, "nil", retExisted[c],
                          Wrap(NewError("driver"), "new host"), TRUE)
             \/ /\ Logged(c, <<"createHost", "NewHost">>)
                /\ pc' = [pc EXCEPT ![c] = "timedCreateHost"]
                /\ UNCHANGED <<retHost, retExisted, retErr>>
    /\ UNCHANGED <<cfgName, cfgDriver, lockHolder, machines, existsResult,
                   createTask, createHangs, createErr, createFinished, timeout,
                   timerTask, tchResult, releases>>
    /\ UNCHANGED <<kicVars, cacheVars, unitVars, envVars, dlVars, statusVars, flagVars, opVars, waitVars>>

\* timedCreateHost up to its select: both channels are made with capacity 1
\* and both goroutines are started; the creation goroutine calls api.Create.
timedCreateHost(c) ==
    /\ pc[c] = "timedCreateHost"
    /\ timerTask' = [timerTask EXCEPT ![c] = "sleeping"]
    /\ createTask' = [createTask EXCEPT ![c] = "running"]
    /\ \E hangs \in BOOLEAN : createHangs' = [createHangs EXCEPT ![c] = hangs]
    /\ Logged(c, <<"Create">>)
    /\ pc' = [pc EXCEPT ![c] = "select"]
    /\ UNCHANGED <<cfgName, cfgDriver, lockHolder, machines, existsResult,
                   createErr, createFinished, timeout, tchResult, releases,
                   retHost, retExisted, retErr>>
    /\ UNCHANGED <<kicVars, cacheVars, unitVars, envVars, dlVars, statusVars, flagVars, opVars, waitVars>>

\* A send on a channel made with make(chan bool, 1) proceeds while the
\* buffer has room, whether or not a receiver is waiting.
ChanHasRoomUnbuffered(n, c) == n < ChanCap /\ pc[c] = "select"
ChanHasRoom(n, c) == n < ChanCap

\* The timer goroutine: time.Sleep(t); timeout <- true.
timerFiresNoSend(c) ==
    /\ timerTask[c] = "sleeping"
    /\ timerTask' = [timerTask EXCEPT ![c] = "done"]
    /\ UNCHANGED <<pc, cfgName, cfgDriver, lockHolder, machines, log,
                   existsResult, createTask, createHangs, createErr,
                   createFinished, timeout, tchResult, releases, retHost,
                   retExisted, retErr>>
    /\ UNCHANGED <<kicVars, cacheVars, unitVars, envVars, dlVars, statusVars, flagVars, opVars, waitVars>>
timerFires(c) ==
    /\ timerTask[c] = "sleeping"
    /\ ChanHasRoom(timeout[c], c)
    /\ timeout' = [timeout EXCEPT ![c] = @ + 1]
    /\ timerTask' = [timerTask EXCEPT ![c] = "done"]
    /\ UNCHANGED <<pc, cfgName, cfgDriver, lockHolder, machines, log,
                   existsResult, createTask, createHangs, createErr,
                   createFinished, tchResult, releases, retHost, retExisted,
                   retErr>>
    /\ UNCHANGED <<kicVars, cacheVars, unitVars, envVars, dlVars, statusVars, flagVars, opVars, waitVars>>

\* The creation goroutine: err = api.Create(h); createFinished <- true.
\* A successful creation leaves the machine in the backend; a failed one
\* may or may not.
apiCreateReturns(c) ==
    /\ createTask[c] = "running"
    /\ ~createHangs[c]
    /\ ChanHasRoom(createFinished[c], c)
    /\ \/ /\ createErr' = [createErr EXCEPT ![c] = Nil]
          /\ machines' = machines \cup {cfgName[c]}
       \/ /\ createErr' = [createErr EXCEPT ![c] = NewError("driver create")]
          /\ \E left \in BOOLEAN :
               machines' = IF left THEN machines \cup {cfgName[c]} ELSE machines
    /\ createFinished' = [createFinished EXCEPT ![c] = @ + 1]
    /\ createTask' = [createTask EXCEPT ![c] = "done"]
    /\ UNCHANGED <<pc, cfgName, cfgDriver, lockHolder, log, existsResult,
                   createHangs, timeout, timerTask, tchResult, releases,
                   retHost, retExisted, retErr>>
    /\ UNCHANGED <<kicVars, cacheVars, unitVars, envVars, dlVars, statusVars, flagVars, opVars, waitVars>>

\* timedCreateHost's select and createHost's check of its result.
selectCreateOrTimeout(c) ==
    /\ pc[c] = "select"
    /\ \E branch \in {"createFinished", "timeout"} :
        /\ \/ /\ branch = "createFinished"
              /\ createFinished[c] > 0
              /\ createFinished' = [createFinished EXCEPT ![c] = @ - 1]
              /\ UNCHANGED timeout
           \/ /\ branch = "timeout"
              /\ timeout[c] > 0
              /\ timeout' = [timeout EXCEPT ![c] = @ - 1]
              /\ UNCHANGED createFinished
        /\ LET r == SelectOutcome(branch, createErr[c]) IN
            /\ tchResult' = [tchResult EXCEPT ![c] = r]
            /\ IF r # Nil
               THEN Return(c, "nil", retExisted[c], Wrap(r, "creating host"), TRUE)
               ELSE /\ pc' = [pc EXCEPT ![c] = "postStartSetup"]
                    /\ UNCHANGED <<retHost, retExisted, retErr>>
    /\ UNCHANGED <<cfgName, cfgDriver, lockHolder, machines, log, existsResult,
                   createTask, createHangs, createErr, timerTask, releases>>
    /\ UNCHANGED <<kicVars, cacheVars, unitVars, envVars, dlVars, statusVars, flagVars, opVars, waitVars>>

\* createHost: postStartSetup(h, *cfg), returning (h, err) on failure.
postStartSetup(c) ==
    /\ pc[c] = "postStartSetup"
    /\ \E runnerOk, mkdirOk, syncOk \in BOOLEAN :
        LET err == postStartSetupErr(cfgDriver, runnerOk, mkdirOk, syncOk) IN
        /\ Logged(c, <<"postStartSetup">>
                      \o postStartSetupCalls(cfgDriver, runnerOk, mkdirOk))
        /\ IF err # Nil
           THEN Return(c, HostOnLateFailure("host"), retExisted[c],
                       Wrap(err, "post-start"), TRUE)
           ELSE /\ pc' = [pc EXCEPT ![c] = "saveHost"]
                /\ UNCHANGED <<retHost, retExisted, retErr>>
    /\ UNCHANGED <<cfgName, cfgDriver, lockHolder, machines, existsResult,
                   createTask, createHangs, createErr, createFinished, timeout,
                   timerTask, tchResult, releases>>
    /\ UNCHANGED <<kicVars, cacheVars, unitVars, envVars, dlVars, statusVars, flagVars, opVars, waitVars>>

\* createHost: saveHost(api, h, cfg, n), returning (h, err) or (h, nil).
saveHost(c) ==
    /\ pc[c] = "saveHost"
    /\ Logged(c, <<"saveHost">>)
    /\ \/ Return(c, HostOnLateFailure("host"), retExisted[c], NewError("save"), TRUE)
       \/ Return(c, "host", retExisted[c], Nil, TRUE)
    /\ UNCHANGED <<cfgName, cfgDriver, lockHolder, machines, existsResult,
                   createTask, createHangs, createErr, createFinished, timeout,
                   timerTask, tchResult, releases>>
    /\ UNCHANGED <<kicVars, cacheVars, unitVars, envVars, dlVars, statusVars, flagVars, opVars, waitVars>>

\* fixHost: the fix path runs post-start setup and then persists the host.
fixHost(c) ==
    /\ pc[c] = "fixHost"
    /\ \E runnerOk, mkdirOk, syncOk, saveOk \in BOOLEAN :
        LET err == postStartSetupErr(cfgDriver, runnerOk, mkdirOk, syncOk) IN
        IF err # Nil
        THEN /\ Logged(c, <<"fixHost", "postStartSetup">>
                           \o postStartSetupCalls(cfgDriver, runnerOk, mkdirOk))
             /\ Return(c, "host", retExisted[c], Wrap(err, "post-start"), TRUE)
        ELSE /\ Logged(c, <<"fixHost", "postStartSetup">>
                           \o postStartSetupCalls(cfgDriver, runnerOk, mkdirOk)
                           \o <<"saveHost">>)
             /\ Return(c, "host", retExisted[c],
                       IF saveOk THEN Nil ELSE NewError("save"), TRUE)
    /\ UNCHANGED <<cfgName, cfgDriver, lockHolder, machines, existsResult,
                   createTask, createHangs, createErr, createFinished, timeout,
                   timerTask, tchResult, releases>>
    /\ UNCHANGED <<kicVars, cacheVars, unitVars, envVars, dlVars, statusVars, flagVars, opVars, waitVars>>

\* The deferred function of StartHost: releaser.Release().
releaseAfterExistsCheck(c) ==
    /\ pc[c] \in {"createHost", "fixHost", "release"}
    /\ lockHolder[LockKey(cfgName[c])] = c
    /\ lockHolder' = [lockHolder EXCEPT ![LockKey(cfgName[c])] = 0]
    /\ releases' = [releases EXCEPT ![c] = @ + 1]
    /\ Logged(c, <<"Release">>)
    /\ pc' = [pc EXCEPT ![c] = IF @ = "release" THEN "done" ELSE @]
    /\ UNCHANGED <<cfgName, cfgDriver, machines, existsResult, createTask,
                   createHangs, createErr, createFinished, timeout, timerTask,
                   tchResult, retHost, retExisted, retErr>>
    /\ UNCHANGED <<kicVars, cacheVars, unitVars, envVars, dlVars, statusVars, flagVars, opVars, waitVars>>
release(c) ==
    /\ pc[c] = "release"
    /\ lockHolder' = [lockHolder EXCEPT ![LockKey(cfgName[c])] = 0]
    /\ releases' = [releases EXCEPT ![c] = @ + 1]
    /\ Logged(c, <<"Release">>)
    /\ pc' = [pc EXCEPT ![c] = "done"]
    /\ UNCHANGED <<cfgName, cfgDriver, machines, existsResult, createTask,
                   createHangs, createErr, createFinished, timeout, timerTask,
                   tchResult, retHost, retExisted, retErr>>
    /\ UNCHANGED <<kicVars, cacheVars, unitVars, envVars, dlVars, statusVars, flagVars, opVars, waitVars>>


(***************************************************************************)
(* kic Driver.Create                                                       *)
(***************************************************************************)
OCIBinaries == {"docker", "podman"}

\* Driver.Create's answer to an existing container that minikube did not
\* create: errors.Wrapf(err, "user has a conflicting container name ..."),
\* where err is what oci.ContainerExists returned.
ConflictErr(existsErr) == Wrap(existsErr, "user has a conflicting container name")

\* The oci calls Driver.Create makes about a container that exists: one
\* that minikube created is deleted.
ExistingCallsNoDelete(byMinikube) ==
    <<"ContainerExists", "IsCreatedByMinikube">>
ExistingCalls(byMinikube) ==
    IF byMinikube
    THEN <<"ContainerExists", "IsCreatedByMinikube", "DeleteContainer">>
    ELSE <<"ContainerExists", "IsCreatedByMinikube">>

KicLogged(events) == kicLog' = kicLog \o events

InitKic ==
    /\ kpc = "idle"
    /\ container = "absent"
    /\ ociBinary = "docker"
    /\ foundExisting = "none"
    /\ kicLog = <<>>
    /\ preloadTask = "none"
    /\ kicErr = Pending

\* A caller invokes d.Create() against some state of the container engine.
kicCreate ==
    /\ kpc = "idle"
    /\ container' \in {"absent", "user", "minikube"}
    /\ ociBinary' \in OCIBinaries
    /\ kpc' = "checkExisting"
    /\ UNCHANGED <<foundExisting, kicLog, preloadTask, kicErr>>
    /\ UNCHANGED <<shVars, cacheVars, unitVars, envVars, dlVars, statusVars, flagVars, opVars, waitVars>>

\* oci.ContainerExists and the handling of an existing container: delete
\* it when minikube created it (a failed delete is only logged), otherwise
\* return the conflict error.  A failed query answers (false, err).
kicCheckExisting ==
    /\ kpc = "checkExisting"
    /\ \E queryOk, deleteOk \in BOOLEAN :
        LET exists == queryOk /\ container # "absent"
            err == IF queryOk THEN Nil ELSE NewError("ps failed")
        IN
        IF exists
        THEN IF container = "minikube"
             THEN /\ KicLogged(ExistingCalls(TRUE))
                  /\ foundExisting' = "minikube"
                  /\ container' = IF deleteOk THEN "absent" ELSE container
                  /\ kpc' = "prepare"
                  /\ UNCHANGED kicErr
             ELSE /\ KicLogged(ExistingCalls(FALSE))
                  /\ foundExisting' = "user"
                  /\ kicErr' = ConflictErr(err)
                  /\ kpc' = "returned"
                  /\ UNCHANGED container
        ELSE /\ KicLogged(<<"ContainerExists">>)
             /\ foundExisting' = "no"
             /\ kpc' = "prepare"
             /\ UNCHANGED <<container, kicErr>>
    /\ UNCHANGED <<ociBinary, preloadTask>>
    /\ UNCHANGED <<shVars, cacheVars, unitVars, envVars, dlVars, statusVars, flagVars, opVars, waitVars>>

\* oci.PrepareContainerNode(params), then the preload goroutine is started
\* when the OCI binary is docker.
kicPrepare ==
    /\ kpc = "prepare"
    /\ KicLogged(<<"PrepareContainerNode">>)
    /\ \/ /\ kicErr' = Wrap(NewError("volume"), "setting up container node")
          /\ kpc' = "returned"
          /\ UNCHANGED preloadTask
       \/ /\ preloadTask' = IF ociBinary = "docker" THEN "running" ELSE "none"
          /\ kpc' = "createNode"
          /\ UNCHANGED kicErr
    /\ UNCHANGED <<container, ociBinary, foundExisting>>
    /\ UNCHANGED <<shVars, cacheVars, unitVars, envVars, dlVars, statusVars, flagVars, opVars, waitVars>>

\* The preload goroutine: nothing to do without a preload, else
\* oci.ExtractTarballToVolume, whose failure is only logged; then Done().
kicPreload ==
    /\ preloadTask = "running"
    /\ \E preloadExists, extractOk \in BOOLEAN :
        preloadTask' = IF ~preloadExists THEN "skipped"
                       ELSE IF extractOk THEN "extracted" ELSE "failed"
    /\ UNCHANGED <<kpc, container, ociBinary, foundExisting, kicLog, kicErr>>
    /\ UNCHANGED <<shVars, cacheVars, unitVars, envVars, dlVars, statusVars, flagVars, opVars, waitVars>>

\* oci.CreateContainerNode(params)
kicCreateNode ==
    /\ kpc = "createNode"
    /\ KicLogged(<<"CreateContainerNode">>)
    /\ \/ /\ kicErr' = Wrap(NewError("run"), "create kic node")
          /\ kpc' = "returned"
          /\ UNCHANGED container
       \/ /\ container' = "minikube"
          /\ kpc' = "prepareSSH"
          /\ UNCHANGED kicErr
    /\ UNCHANGED <<ociBinary, foundExisting, preloadTask>>
    /\ UNCHANGED <<shVars, cacheVars, unitVars, envVars, dlVars, statusVars, flagVars, opVars, waitVars>>

\* d.prepareSSH()
kicPrepareSSH ==
    /\ kpc = "prepareSSH"
    /\ KicLogged(<<"prepareSSH">>)
    /\ \/ /\ kicErr' = Wrap(NewError("ssh"), "prepare kic ssh")
          /\ kpc' = "returned"
       \/ /\ kpc' = "wait"
          /\ UNCHANGED kicErr
    /\ UNCHANGED <<container, ociBinary, foundExisting, preloadTask>>
    /\ UNCHANGED <<shVars, cacheVars, unitVars, envVars, dlVars, statusVars, flagVars, opVars, waitVars>>

\* waitForPreload.Wait(); return nil
kicWait ==
    /\ kpc = "wait"
    /\ preloadTask # "running"
    /\ kicErr' = Nil
    /\ kpc' = "returned"
    /\ UNCHANGED <<container, ociBinary, foundExisting, kicLog, preloadTask>>
    /\ UNCHANGED <<shVars, cacheVars, unitVars, envVars, dlVars, statusVars, flagVars, opVars, waitVars>>

(***************************************************************************)
(* node: artifact cache coordinator                                        *)
(***************************************************************************)
BaseImage == "kicbase"
BaseImageFallBack1 == "kicbase/stable"
BaseImageFallBack2 == "docker.pkg.github.com/kicbase"
CustomImage == "custom/base"
KicImages == {BaseImage, CustomImage}
Repositories == {"", "mirror"}

\* An error value is an object: id tells objects apart, kind is the class
\* of its message.  NilErr is the nil error.
NilErr == [id |-> 0, kind |-> "nil"]

\* What remote.Image and the later steps of WriteImageToDaemon can do.
Outcomes == {"ok", "github", "unauthorized", "other"}

\* The error WriteImageToDaemon returns: a new object for each failure.
WriteImageToDaemonErr(outcome, id) ==
    IF outcome = "ok" THEN NilErr ELSE [id |-> id, kind |-> outcome]

\* WriteImageToDaemon stores the error it returns in ErrGithubNeedsLogin
\* when the message has "GitHub Docker Registry needs login" ...
GithubAfter(outcome, id, old) ==
    IF outcome = "github" THEN WriteImageToDaemonErr(outcome, id) ELSE old

\* ... and in ErrNeedsLogin when it has "UNAUTHORIZED".
NeedsLoginAfter(outcome, id, old) ==
    IF outcome = "unauthorized" THEN WriteImageToDaemonErr(outcome, id) ELSE old

\* errors.Is for these errors: the error is the very object of the target.
ErrorsIs(err, target) == err # NilErr /\ err = target

\* errors.Is(err, ErrGithubNeedsLogin) || errors.Is(err, ErrNeedsLogin)
IsAuthErrGithubOnly(err, github, needsLogin) == ErrorsIs(err, github)
IsAuthErr(err, github, needsLogin) ==
    ErrorsIs(err, github) \/ ErrorsIs(err, needsLogin)

\* How waitDownloadKicArtifacts ends for the error g.Wait() returned.
WaitKicOutcome(err, github, needsLogin) ==
    IF err # NilErr /\ IsAuthErr(err, github, needsLogin)
    THEN "exited" ELSE "returned"

\* How waitCacheRequiredImages ends for the error g.Wait() returned.
WaitCacheOutcomeEscalates(failed) == IF failed THEN "exited" ELSE "returned"
WaitCacheOutcome(failed) == "returned"

\* g.Wait() returns once no task of the group is running.
GroupDoneNoWait(tasks) == TRUE
GroupDone(tasks) == \A i \in DOMAIN tasks : tasks[i] # "running"

\* g.Wait() returns a non-nil error when some task returned one.
GroupFailed(tasks) == \E i \in DOMAIN tasks : tasks[i] = "failed"

\* beginCacheKubernetesImages calls download.Preload ...
FetchesPreload(repo, preloadExists) == repo = "" /\ preloadExists

\* ... and enqueues the per-image caching task.
EnqueuesTaskAfterAnyFetch(repo, preloadExists, preloadOk, cacheEnabled) ==
    ~FetchesPreload(repo, preloadExists) /\ cacheEnabled
EnqueuesTask(repo, preloadExists, preloadOk, cacheEnabled) ==
    /\ ~(FetchesPreload(repo, preloadExists) /\ preloadOk)
    /\ cacheEnabled

\* The image reference the download task passes to WriteImageToDaemon.
RefOf(stage, config) ==
    CASE stage = "primary" -> config.KicBaseImage
      [] stage = "fallback1" -> BaseImageFallBack1
      [] stage = "fallback2" -> BaseImageFallBack2

\* The stage of the download task after an attempt.
NextStageNoStop(stage, failed) ==
    CASE stage = "primary" -> "fallback1"
      [] stage = "fallback1" -> "fallback2"
      [] stage = "fallback2" -> "done"
NextStage(stage, failed) ==
    IF ~failed THEN "done"
    ELSE CASE stage = "primary" -> "fallback1"
           [] stage = "fallback1" -> "fallback2"
           [] stage = "fallback2" -> "done"

\* The download task writes the fallback it turns to into cc.KicBaseImage.
ConfigAfterUntouched(stage, failed, config) == config
ConfigAfter(stage, failed, config) ==
    IF ~failed THEN config
    ELSE CASE stage = "primary" ->
                [config EXCEPT !.KicBaseImage = BaseImageFallBack1]
           [] stage = "fallback1" ->
                [config EXCEPT !.KicBaseImage = BaseImageFallBack2]
           [] stage = "fallback2" -> config

\* image.ExistsImageInDaemon(img): `docker images` ran without error and
\* its output has the reference; a failed listing counts as absent.
ExistsImageInDaemonNever(img, daemon, listOk) == FALSE
ExistsImageInDaemon(img, daemon, listOk) == listOk /\ img \in daemon

\* beginDownloadKicArtifacts starts the download task.
StartsDownload(config, daemon, listOk) ==
    /\ config.Driver = "docker"
    /\ ~ExistsImageInDaemon(config.KicBaseImage, daemon, listOk)

\* A successful WriteImageToDaemon(ref) leaves ref in the daemon.
DaemonAfter(outcome, ref, daemon) ==
    IF outcome = "ok" THEN daemon \cup {ref} ELSE daemon

RunningStages == {"primary", "fallback1", "fallback2"}

\* The kic group as a sequence of task states.
KicGroup == IF kicTask \in RunningStages THEN <<"running">> ELSE <<>>

InitCache ==
    /\ cacheImagesFlag \in BOOLEAN
    /\ cc \in [Driver : {cfgDriver}, KicBaseImage : KicImages]
    /\ ccBefore = cc
    /\ mpc = "run"
    /\ cacheBegins = <<>>
    /\ cacheTasks = <<>>
    /\ cacheWaitSt = "no"
    /\ kicTask = "unbegun"
    /\ kicAttempts = <<>>
    /\ kicTaskErr = NilErr
    /\ ErrGithubNeedsLogin = [id |-> 0, kind |-> "github"]
    /\ ErrNeedsLogin = [id |-> 0, kind |-> "unauthorized"]
    /\ kicWaitSt = "no"
    /\ errorLog = {}
    /\ daemonImages \in SUBSET {cc.KicBaseImage}
    /\ imagesListed = "no"

\* The settings the coordinator is left with where it is not exercised.
CacheDefaults ==
    /\ cacheImagesFlag = TRUE
    /\ cc.KicBaseImage = BaseImage
    /\ daemonImages = {}

\* beginCacheKubernetesImages(g, imageRepository, k8sVersion, cRuntime)
beginCacheKubernetesImages ==
    /\ mpc = "run"
    /\ hdo \in {"no", "returned"}
    /\ cacheWaitSt = "no"
    /\ Len(cacheBegins) < MaxCacheBegins
    /\ \E repo \in Repositories, preloadExists, ok \in BOOLEAN :
        LET fetches == FetchesPreload(repo, preloadExists)
            preloadOk == fetches /\ ok
            enqueues == EnqueuesTask(repo, preloadExists, preloadOk,
                                     cacheImagesFlag)
        IN
        /\ cacheTasks' = IF enqueues THEN Append(cacheTasks, "running")
                         ELSE cacheTasks
        /\ cacheBegins' = Append(cacheBegins,
                                 [repo |-> repo,
                                  preloadExists |-> preloadExists,
                                  fetched |-> fetches,
                                  preloadOk |-> preloadOk,
                                  tasks |-> Len(cacheTasks')])
    /\ UNCHANGED <<cacheImagesFlag, cc, ccBefore, mpc, cacheWaitSt, kicTask,
                   kicAttempts, kicTaskErr, ErrGithubNeedsLogin,
                   ErrNeedsLogin, kicWaitSt, errorLog>>
    /\ UNCHANGED <<shVars, kicVars, unitVars, envVars, statusVars, flagVars, opVars, waitVars>>
    /\ UNCHANGED <<daemonImages, imagesListed>>
    /\ UNCHANGED dlVars

\* A task of the cache group: machine.CacheImagesForBootstrapper returns.
CacheImagesForBootstrapper ==
    /\ mpc # "exited"
    /\ \E i \in DOMAIN cacheTasks :
        /\ cacheTasks[i] = "running"
        /\ \E r \in {"ok", "failed"} :
              cacheTasks' = [cacheTasks EXCEPT ![i] = r]
    /\ UNCHANGED <<cacheImagesFlag, cc, ccBefore, mpc, cacheBegins,
                   cacheWaitSt, kicTask, kicAttempts, kicTaskErr,
                   ErrGithubNeedsLogin, ErrNeedsLogin, kicWaitSt, errorLog>>
    /\ UNCHANGED <<shVars, kicVars, unitVars, envVars, statusVars, flagVars, opVars, waitVars>>
    /\ UNCHANGED <<daemonImages, imagesListed>>
    /\ UNCHANGED dlVars

\* waitCacheRequiredImages(g) up to g.Wait(): it returns at once when
\* cache-images is off.
waitCacheRequiredImages ==
    /\ mpc = "run"
    /\ hdo \in {"no", "returned", "cacheWait"}
    /\ cacheWaitSt = "no"
    /\ IF ~cacheImagesFlag
       THEN cacheWaitSt' = "returned" /\ UNCHANGED mpc
       ELSE cacheWaitSt' = "called" /\ mpc' = "inWaitCache"
    /\ UNCHANGED <<cacheImagesFlag, cc, ccBefore, cacheBegins, cacheTasks,
                   kicTask, kicAttempts, kicTaskErr, ErrGithubNeedsLogin,
                   ErrNeedsLogin, kicWaitSt, errorLog>>
    /\ UNCHANGED <<shVars, kicVars, unitVars, envVars, statusVars, flagVars, opVars, waitVars>>
    /\ UNCHANGED <<daemonImages, imagesListed>>
    /\ hdoLog' = IF hdo = "cacheWait"
                 THEN Append(hdoLog, "waitCacheRequiredImages") ELSE hdoLog
    /\ hdo' = IF hdo = "cacheWait" /\ cacheWaitSt' = "returned"
              THEN "kicWait" ELSE hdo
    /\ UNCHANGED downloadOnly

\* g.Wait() returns in waitCacheRequiredImages; an error is logged.
waitCacheRequiredImagesReturns ==
    /\ mpc = "inWaitCache"
    /\ GroupDone(cacheTasks)
    /\ errorLog' = IF GroupFailed(cacheTasks)
                   THEN errorLog \cup {"Error caching images"}
                   ELSE errorLog
    /\ cacheWaitSt' = WaitCacheOutcome(GroupFailed(cacheTasks))
    /\ mpc' = IF cacheWaitSt' = "exited" THEN "exited" ELSE "run"
    /\ UNCHANGED <<cacheImagesFlag, cc, ccBefore, cacheBegins, cacheTasks,
                   kicTask, kicAttempts, kicTaskErr, ErrGithubNeedsLogin,
                   ErrNeedsLogin, kicWaitSt>>
    /\ UNCHANGED <<shVars, kicVars, unitVars, envVars, statusVars, flagVars, opVars, waitVars>>
    /\ UNCHANGED <<daemonImages, imagesListed>>
    /\ hdo' = IF hdo = "cacheWait" /\ cacheWaitSt' = "returned"
              THEN "kicWait" ELSE hdo
    /\ UNCHANGED <<downloadOnly, hdoLog>>

\* beginDownloadKicArtifacts(g, cc): a task is started for the docker
\* driver when the base image is not in the local daemon.
beginDownloadKicArtifacts ==
    /\ mpc = "run"
    /\ hdo \in {"no", "returned"}
    /\ kicWaitSt = "no"
    /\ kicTask = "unbegun"
    /\ \E listOk \in BOOLEAN :
        /\ imagesListed' = IF cc.Driver # "docker" THEN "no"
                           ELSE IF listOk THEN "ok" ELSE "failed"
        /\ kicTask' = IF StartsDownload(cc, daemonImages, listOk)
                      THEN "primary" ELSE "skipped"
    /\ UNCHANGED <<cacheImagesFlag, cc, ccBefore, mpc, cacheBegins,
                   cacheTasks, cacheWaitSt, kicAttempts, kicTaskErr,
                   ErrGithubNeedsLogin, ErrNeedsLogin, kicWaitSt, errorLog>>
    /\ UNCHANGED <<shVars, kicVars, unitVars, envVars, statusVars, flagVars, opVars, waitVars>>
    /\ UNCHANGED daemonImages
    /\ UNCHANGED dlVars

\* One image.WriteImageToDaemon call of the download task and what the
\* task does with its result.
downloadKicTask ==
    /\ mpc # "exited"
    /\ kicTask \in RunningStages
    /\ \E outcome \in Outcomes :
        LET id == Len(kicAttempts) + 1
            err == WriteImageToDaemonErr(outcome, id)
            failed == err # NilErr
        IN
        /\ kicAttempts' = Append(kicAttempts,
                                 [ref |-> RefOf(kicTask, cc),
                                  result |-> outcome])
        /\ ErrGithubNeedsLogin' = GithubAfter(outcome, id, ErrGithubNeedsLogin)
        /\ ErrNeedsLogin' = NeedsLoginAfter(outcome, id, ErrNeedsLogin)
        /\ cc' = ConfigAfter(kicTask, failed, cc)
        /\ daemonImages' = DaemonAfter(outcome, RefOf(kicTask, cc), daemonImages)
        /\ kicTask' = NextStage(kicTask, failed)
        /\ kicTaskErr' = IF kicTask = "fallback2" THEN err ELSE NilErr
    /\ UNCHANGED <<cacheImagesFlag, ccBefore, mpc, cacheBegins, cacheTasks,
                   cacheWaitSt, kicWaitSt, errorLog>>
    /\ UNCHANGED <<shVars, kicVars, unitVars, envVars, statusVars, flagVars, opVars, waitVars>>
    /\ UNCHANGED imagesListed
    /\ UNCHANGED dlVars

\* waitDownloadKicArtifacts(g) up to g.Wait()
waitDownloadKicArtifacts ==
    /\ mpc = "run"
    /\ hdo \in {"no", "returned", "kicWait"}
    /\ kicWaitSt = "no"
    /\ kicWaitSt' = "called"
    /\ mpc' = "inWaitKic"
    /\ UNCHANGED <<cacheImagesFlag, cc, ccBefore, cacheBegins, cacheTasks,
                   cacheWaitSt, kicTask, kicAttempts, kicTaskErr,
                   ErrGithubNeedsLogin, ErrNeedsLogin, errorLog>>
    /\ UNCHANGED <<shVars, kicVars, unitVars, envVars, statusVars, flagVars, opVars, waitVars>>
    /\ UNCHANGED <<daemonImages, imagesListed>>
    /\ hdoLog' = IF hdo = "kicWait"
                 THEN Append(hdoLog, "waitDownloadKicArtifacts") ELSE hdoLog
    /\ UNCHANGED <<downloadOnly, hdo>>

\* g.Wait() returns in waitDownloadKicArtifacts: exit.UsageT for a login
\* error, glog.Errorln for another error.
waitDownloadKicArtifactsReturns ==
    /\ mpc = "inWaitKic"
    /\ GroupDone(KicGroup)
    /\ LET err == kicTaskErr
           outcome == WaitKicOutcome(err, ErrGithubNeedsLogin, ErrNeedsLogin)
       IN
       /\ kicWaitSt' = outcome
       /\ mpc' = IF outcome = "exited" THEN "exited" ELSE "run"
       /\ errorLog' =
            IF err = NilErr THEN errorLog
            ELSE IF outcome = "exited"
            THEN errorLog \cup {"Please either authenticate to the registry"}
            ELSE errorLog \cup {"Error downloading kic artifacts"}
    /\ UNCHANGED <<cacheImagesFlag, cc, ccBefore, cacheBegins, cacheTasks,
                   cacheWaitSt, kicTask, kicAttempts, kicTaskErr,
                   ErrGithubNeedsLogin, ErrNeedsLogin>>
    /\ UNCHANGED <<shVars, kicVars, unitVars, envVars, statusVars, flagVars, opVars, waitVars>>
    /\ UNCHANGED <<daemonImages, imagesListed>>
    /\ hdo' = IF hdo = "kicWait" /\ kicWaitSt' = "returned"
              THEN "save" ELSE hdo
    /\ UNCHANGED <<downloadOnly, hdoLog>>

(***************************************************************************)
(* handleDownloadOnly                                                      *)
(***************************************************************************)
\* How handleDownloadOnly ends after saveImagesToTarFromConfig:
\* exit.WithError on an error, else os.Exit(0).
HdoAfterSaveAlwaysZero(saveOk) == "exit0"
HdoAfterSave(saveOk) == IF saveOk THEN "exit0" ELSE "exitErr"

InitDownloadOnly ==
    /\ downloadOnly \in BOOLEAN
    /\ hdo = "no"
    /\ hdoLog = <<>>

\* The setting where handleDownloadOnly is not exercised.
DownloadOnlyDefaults == downloadOnly = FALSE

\* handleDownloadOnly(cacheGroup, kicGroup, k8sVersion) up to its first
\* wait: it returns at once without --download-only, else it caches the
\* Kubernetes binaries and kubectl and exits on an error of either.
handleDownloadOnly ==
    /\ mpc = "run"
    /\ hdo = "no"
    /\ cacheWaitSt = "no"
    /\ kicWaitSt = "no"
    /\ IF ~downloadOnly
       THEN /\ hdo' = "returned"
            /\ UNCHANGED <<hdoLog, mpc>>
       ELSE \E binariesOk, kubectlOk \in BOOLEAN :
               IF ~binariesOk
               THEN /\ hdoLog' = <<"doCacheBinaries", "doCacheBinaries failed">>
                    /\ hdo' = "exitErr"
                    /\ mpc' = "exited"
               ELSE IF ~kubectlOk
               THEN /\ hdoLog' = <<"doCacheBinaries", "CacheKubectlBinary",
                                   "CacheKubectlBinary failed">>
                    /\ hdo' = "exitErr"
                    /\ mpc' = "exited"
               ELSE /\ hdoLog' = <<"doCacheBinaries", "CacheKubectlBinary">>
                    /\ hdo' = "cacheWait"
                    /\ UNCHANGED mpc
    /\ UNCHANGED downloadOnly
    /\ UNCHANGED <<cacheImagesFlag, cc, ccBefore, cacheBegins, cacheTasks,
                   cacheWaitSt, kicTask, kicAttempts, kicTaskErr,
                   ErrGithubNeedsLogin, ErrNeedsLogin, kicWaitSt, errorLog>>
    /\ UNCHANGED <<shVars, kicVars, unitVars, envVars, statusVars, flagVars, opVars, waitVars>>
    /\ UNCHANGED <<daemonImages, imagesListed>>

\* handleDownloadOnly after both waits: saveImagesToTarFromConfig, then
\* os.Exit(0), or exit.WithError when the save failed.
saveImagesToTarFromConfig ==
    /\ mpc = "run"
    /\ hdo = "save"
    /\ \E saveOk \in BOOLEAN :
        /\ hdoLog' = hdoLog \o
               (IF saveOk THEN <<"saveImagesToTarFromConfig">>
                ELSE <<"saveImagesToTarFromConfig",
                       "saveImagesToTarFromConfig failed">>)
        /\ hdo' = HdoAfterSave(saveOk)
    /\ mpc' = "exited"
    /\ UNCHANGED downloadOnly
    /\ UNCHANGED <<cacheImagesFlag, cc, ccBefore, cacheBegins, cacheTasks,
                   cacheWaitSt, kicTask, kicAttempts, kicTaskErr,
                   ErrGithubNeedsLogin, ErrNeedsLogin, kicWaitSt, errorLog>>
    /\ UNCHANGED <<shVars, kicVars, unitVars, envVars, statusVars, flagVars, opVars, waitVars>>
    /\ UNCHANGED <<daemonImages, imagesListed>>

(***************************************************************************)
(* postStartSetup on one unit                                              *)
(***************************************************************************)
UnitDrivers == {"mock", "none", "docker", "virtualbox"}

\* requiredDirectories, in the order of the list.
requiredDirectories ==
    <<"addons", "manifests", "ephemeral", "persistent", "certs",
      "persistent/images", "persistent/binaries", "gvisor", "cert-auth",
      "cert-store">>
Required == {requiredDirectories[i] : i \in DOMAIN requiredDirectories}
FirstRequired(k) == {requiredDirectories[i] : i \in 1..k}

\* `sudo mkdir -p dir...` fails when the command cannot be run; with -p a
\* directory that exists is not an error.
MkdirFailsOnExisting(existing, dirs, cmdOk) ==
    ~cmdOk \/ existing \cap dirs # {}
MkdirFails(existing, dirs, cmdOk) == ~cmdOk

\* The directories after a successful `mkdir -p dir...`.
MkdirP(existing, dirs) == existing \cup dirs

\* postStartSetup's calls and result.  showLocalOsRelease and
\* logRemoteOsRelease return nothing, so what they find (osOk) takes no
\* part in either.
postStartSetupOutcomeOsFatal(driver, runnerOk, mkdirOk, osOk, syncOk) ==
    IF IsMock(driver) \/ ~runnerOk \/ ~mkdirOk \/ osOk
       \/ ~(BareMetal(driver) \/ IsVMOrKIC(driver))
    THEN [err |-> postStartSetupErr(driver, runnerOk, mkdirOk, syncOk),
          calls |-> postStartSetupCalls(driver, runnerOk, mkdirOk)]
    ELSE [err |-> Wrap(NewError("os-release"), "os release"),
          calls |-> SubSeq(postStartSetupCalls(driver, runnerOk, mkdirOk),
                           1, 3)]
postStartSetupOutcome(driver, runnerOk, mkdirOk, osOk, syncOk) ==
    [err |-> postStartSetupErr(driver, runnerOk, mkdirOk, syncOk),
     calls |-> postStartSetupCalls(driver, runnerOk, mkdirOk)]

NoSetup ==
    [driver |-> "", runnerOk |-> FALSE, cmdOk |-> FALSE, osOk |-> FALSE,
     syncOk |-> FALSE, dirsBefore |-> {}, calls |-> <<>>, err |-> Pending]

InitUnit ==
    /\ unitDriver \in UnitDrivers
    /\ unitDirs \in {FirstRequired(k) : k \in 0..Len(requiredDirectories)}
                    \cup {Required \cup {"home"}}
    /\ setupRuns = 0
    /\ lastSetup = NoSetup

\* The unit where postStartSetup is not exercised.
UnitDefaults == unitDriver = "docker" /\ unitDirs = {}

\* postStartSetup(h, mc) for a non-mock driver: CommandRunner, mkdir -p of
\* the required directories, the OS release, syncLocalAssets.
postStartSetupRun ==
    /\ ~IsMock(unitDriver)
    /\ setupRuns < MaxSetupRuns
    /\ setupRuns' = setupRuns + 1
    /\ \E runnerOk, cmdOk, osOk, syncOk \in BOOLEAN :
        LET mkdirOk == ~MkdirFails(unitDirs, Required, cmdOk)
            out == postStartSetupOutcome(unitDriver, runnerOk, mkdirOk,
                                         osOk, syncOk)
        IN
        /\ lastSetup' = [driver |-> unitDriver, runnerOk |-> runnerOk,
                         cmdOk |-> cmdOk, osOk |-> osOk, syncOk |-> syncOk,
                         dirsBefore |-> unitDirs, calls |-> out.calls,
                         err |-> out.err]
        /\ IF ~Has(out.calls, "mkdir") THEN UNCHANGED unitDirs
           ELSE IF mkdirOk THEN unitDirs' = MkdirP(unitDirs, Required)
           ELSE \E k \in 0..(Len(requiredDirectories) - 1) :
                   unitDirs' = MkdirP(unitDirs, FirstRequired(k))
    /\ UNCHANGED unitDriver
    /\ UNCHANGED <<shVars, kicVars, cacheVars, envVars, dlVars, statusVars, flagVars, opVars, waitVars>>

\* postStartSetup(h, mc) for a mock driver returns nil at once.
postStartSetupMock ==
    /\ IsMock(unitDriver)
    /\ setupRuns < MaxSetupRuns
    /\ setupRuns' = setupRuns + 1
    /\ \E runnerOk, cmdOk, osOk, syncOk \in BOOLEAN :
        LET out == postStartSetupOutcome(unitDriver, runnerOk, cmdOk,
                                         osOk, syncOk)
        IN
        lastSetup' = [driver |-> unitDriver, runnerOk |-> runnerOk,
                      cmdOk |-> cmdOk, osOk |-> osOk, syncOk |-> syncOk,
                      dirsBefore |-> unitDirs, calls |-> out.calls,
                      err |-> out.err]
    /\ UNCHANGED <<unitDriver, unitDirs>>
    /\ UNCHANGED <<shVars, kicVars, cacheVars, envVars, dlVars, statusVars, flagVars, opVars, waitVars>>

(***************************************************************************)
(* engineOptions                                                           *)
(***************************************************************************)
EnvEntries == {"HTTP_PROXY=p", "NO_PROXY=n", "FOO=bar"}
EnvLists == UNION {[1..n -> EnvEntries] : n \in 0..MaxEnvLen}
Unset == <<"(unset)">>

\* The loop of engineOptions from index i on: an entry not yet seen is
\* marked seen and appended to uniqueEnvs.
RECURSIVE DedupFrom(_, _, _, _)
DedupFrom(xs, i, seen, unique) ==
    IF i > Len(xs) THEN unique
    ELSE IF xs[i] \in seen THEN DedupFrom(xs, i + 1, seen, unique)
    ELSE DedupFrom(xs, i + 1, seen \cup {xs[i]}, Append(unique, xs[i]))

\* The same loop over the list from its end, keeping last occurrences.
RECURSIVE DedupLastFrom(_, _, _, _)
DedupLastFrom(xs, i, seen, unique) ==
    IF i < 1 THEN unique
    ELSE IF xs[i] \in seen THEN DedupLastFrom(xs, i - 1, seen, unique)
    ELSE DedupLastFrom(xs, i - 1, seen \cup {xs[i]}, <<xs[i]>> \o unique)

DedupKeepLast(xs) == DedupLastFrom(xs, Len(xs), {}, <<>>)
Dedup(xs) == DedupFrom(xs, 1, {}, <<>>)

InitEnv ==
    /\ proxyEnv \in EnvLists
    /\ cfgDockerEnv \in EnvLists
    /\ uniqueEnvs = Unset

\* The environment where engineOptions is not exercised.
EnvDefaults == proxyEnv = <<>> /\ cfgDockerEnv = <<>>

\* engineOptions(cfg): dockerEnv is the proxy entries followed by
\* cfg.DockerEnv; Env is that list without duplicates.
engineOptions ==
    /\ uniqueEnvs = Unset
    /\ uniqueEnvs' = Dedup(proxyEnv \o cfgDockerEnv)
    /\ UNCHANGED <<proxyEnv, cfgDockerEnv>>
    /\ UNCHANGED <<shVars, kicVars, cacheVars, unitVars, dlVars, statusVars, flagVars, opVars, waitVars>>

(***************************************************************************)
(* status command                                                          *)
(***************************************************************************)
Configured == "Configured"
Misconfigured == "Misconfigured"
Nonexistent == "Nonexistent"
Irrelevant == "Irrelevant"
Running == "Running"
StateNone == "None"
StateError == "Error"
HostStates == {StateNone, Running, "Stopped"}
ComponentStates == {Running, "Stopped"}

minikubeNotRunningStatusFlag == 1
clusterNotRunningStatusFlag == 2
k8sNotRunningStatusFlag == 4

\* a | b on non-negative integers.
RECURSIVE BitOr(_, _)
BitOr(a, b) ==
    IF a = 0 THEN b
    ELSE IF b = 0 THEN a
    ELSE (IF a % 2 = 1 \/ b % 2 = 1 THEN 1 ELSE 0)
         + 2 * BitOr(a \div 2, b \div 2)

\* The flags one *Status adds to the exit code.
StatusFlagsHostOnly(st) ==
    IF st.Host # Running THEN minikubeNotRunningStatusFlag ELSE 0
StatusFlags(st) ==
    BitOr(BitOr(IF st.Host # Running
                THEN minikubeNotRunningStatusFlag ELSE 0,
                IF (st.APIServer # Running /\ st.APIServer # Irrelevant)
                   \/ st.Kubelet # Running
                THEN clusterNotRunningStatusFlag ELSE 0),
          IF st.Kubeconfig # Configured /\ st.Kubeconfig # Irrelevant
          THEN k8sNotRunningStatusFlag ELSE 0)

\* exitCode(statuses): the loop from index i on with c so far.
RECURSIVE exitCodeFrom(_, _, _)
exitCodeFrom(sts, i, c) ==
    IF i > Len(sts) THEN c
    ELSE exitCodeFrom(sts, i + 1, BitOr(c, StatusFlags(sts[i])))

exitCode(sts) == exitCodeFrom(sts, 1, 0)

\* status(): a host that is not running gives its state to the three
\* components, "rather than delivering conflicting messages".
NotRunningStatusHostOnly(st) == st
NotRunningStatus(st) ==
    [st EXCEPT !.APIServer = st.Host, !.Kubelet = st.Host,
               !.Kubeconfig = st.Host]

\* status(api, cc, n) for the given answers of the machine and the node.
status(name, controlPlane, in) ==
    LET st0 == [Name |-> name, Host |-> Nonexistent, APIServer |-> Nonexistent,
                Kubelet |-> Nonexistent, Kubeconfig |-> Nonexistent,
                Worker |-> ~controlPlane]
        st1 == [st0 EXCEPT !.Host = in.hs]
        st2 == IF controlPlane
               THEN [st1 EXCEPT !.Kubeconfig = Configured]
               ELSE [st1 EXCEPT !.Kubeconfig = Irrelevant,
                                !.APIServer = Irrelevant]
        st3 == [st2 EXCEPT !.Kubelet = in.stk]
        st4 == IF in.endpointOk /\ in.verifyOk THEN st3
               ELSE [st3 EXCEPT !.Kubeconfig = Misconfigured]
    IN
    IF ~in.hsOk THEN st0
    ELSE IF in.hs = StateNone THEN st0
    ELSE IF in.hs # Running THEN NotRunningStatus(st1)
    ELSE IF ~in.ipOk THEN [st1 EXCEPT !.Host = StateError]
    ELSE IF ~in.loadOk \/ ~in.runnerOk THEN st2
    ELSE IF ~controlPlane THEN st3
    ELSE IF ~in.staOk THEN [st4 EXCEPT !.APIServer = StateError]
    ELSE [st4 EXCEPT !.APIServer = in.sta]

StatusInputs ==
    [hsOk : BOOLEAN, hs : HostStates, ipOk : BOOLEAN, loadOk : BOOLEAN,
     runnerOk : BOOLEAN, stk : ComponentStates, endpointOk : BOOLEAN,
     verifyOk : BOOLEAN, staOk : BOOLEAN, sta : ComponentStates]

NodeNames == <<"minikube", "minikube-m02", "minikube-m03">>

InitStatus ==
    /\ statuses = <<>>
    /\ hostStatuses = <<>>
    /\ statusExited = FALSE
    /\ statusExitCode = 0

\* statusCmd: status(api, *cc, n) for the next node, appended to statuses.
statusOfNode ==
    /\ ~statusExited
    /\ Len(statuses) < MaxNodes
    /\ \E controlPlane \in BOOLEAN, in \in StatusInputs :
        /\ statuses' = Append(statuses,
                              status(NodeNames[Len(statuses) + 1],
                                     controlPlane, in))
        /\ hostStatuses' = Append(hostStatuses,
                                  [ok |-> in.hsOk, hs |-> in.hs])
    /\ UNCHANGED <<statusExited, statusExitCode>>
    /\ UNCHANGED <<shVars, kicVars, cacheVars, unitVars, envVars, dlVars, flagVars, opVars, waitVars>>

\* statusCmd: os.Exit(exitCode(statuses))
statusExit ==
    /\ ~statusExited
    /\ statusExited' = TRUE
    /\ statusExitCode' = exitCode(statuses)
    /\ UNCHANGED <<statuses, hostStatuses>>
    /\ UNCHANGED <<shVars, kicVars, cacheVars, unitVars, envVars, dlVars, flagVars, opVars, waitVars>>

(***************************************************************************)
(* updateExistingConfigFromFlags                                           *)
(***************************************************************************)
\* The flags of the model: one plain string flag, one plain bool flag, the
\* memory flag (only compared), the API server port, and the criSocket and
\* networkPlugin flags, which both write NetworkPlugin.
StartFlags == {"container-runtime", "keep-context", "memory",
               "apiserver-port", "cri-socket", "network-plugin",
               "base-image"}

ExistingConfigs ==
    [ContainerRuntime : {"docker", "containerd"},
     KeepContext : BOOLEAN,
     Memory : {"2048"},
     NodePort : {"0", "8443"},
     CRISocket : {""},
     NetworkPlugin : {"", "cni"},
     KicBaseImage : {"kicbase"}]

ViperValues ==
    [containerRuntime : {"cri-o"},
     keepContext : {TRUE},
     memory : {"4096"},
     apiServerPort : {"8443", "9000"},
     criSocket : {"/run/cri.sock"},
     networkPlugin : {"kubenet"},
     kicBaseImage : {"custom/base"}]

\* cc.KubernetesConfig.NodePort: the flag when it was changed, and the
\* flag's value when the stored port is 0.
NodePortAfterAlwaysFlag(old, changed, v) == v.apiServerPort
NodePortAfter(old, changed, v) ==
    IF old.NodePort = "0" THEN v.apiServerPort
    ELSE IF "apiserver-port" \in changed THEN v.apiServerPort
    ELSE old.NodePort

\* cc := *existing, then one assignment for every changed flag.
updateExistingConfigFromFlags(old, changed, v) ==
    [ContainerRuntime |->
         IF "container-runtime" \in changed THEN v.containerRuntime
         ELSE old.ContainerRuntime,
     KeepContext |->
         IF "keep-context" \in changed THEN v.keepContext
         ELSE old.KeepContext,
     Memory |-> old.Memory,
     NodePort |-> NodePortAfter(old, changed, v),
     CRISocket |->
         IF "cri-socket" \in changed THEN v.criSocket ELSE old.CRISocket,
     NetworkPlugin |->
         IF "network-plugin" \in changed THEN v.networkPlugin
         ELSE IF "cri-socket" \in changed THEN v.criSocket
         ELSE old.NetworkPlugin,
     KicBaseImage |->
         IF "base-image" \in changed THEN v.kicBaseImage
         ELSE old.KicBaseImage]

InitFlags ==
    /\ existingCfg \in ExistingConfigs
    /\ changedFlags \in SUBSET StartFlags
    /\ viper \in ViperValues
    /\ updated = FALSE
    /\ updatedCfg = existingCfg

\* The start command where updateExistingConfigFromFlags is not exercised.
FlagDefaults ==
    /\ existingCfg = [ContainerRuntime |-> "docker", KeepContext |-> FALSE,
                   Memory |-> "2048", NodePort |-> "8443", CRISocket |-> "",
                   NetworkPlugin |-> "", KicBaseImage |-> "kicbase"]
    /\ changedFlags = {}
    /\ viper.apiServerPort = "8443"

\* A second start: cc = updateExistingConfigFromFlags(cmd, existingCfg)
secondStart ==
    /\ ~updated
    /\ updated' = TRUE
    /\ updatedCfg' = updateExistingConfigFromFlags(existingCfg, changedFlags, viper)
    /\ UNCHANGED <<existingCfg, changedFlags, viper>>
    /\ UNCHANGED <<shVars, kicVars, cacheVars, unitVars, envVars, dlVars,
                   statusVars, opVars, waitVars>>

(***************************************************************************)
(* kic Driver.Remove, Restart, Start and Stop                              *)
(***************************************************************************)
NodeStates == {"absent", Running, "Stopped"}

\* What oci.DeleteContainer can answer.
DeleteOutcomes == {"deleted", "is already in progress", "No such container:",
                   "other error"}
\* What oci.ContainerID can answer after the delete.
IDOutcomes == {"id", "empty", "error"}

\* The steps of Stop that can fail before its last command.
KubeletOutcomes == {"stopped", "force stopped", "force stop failed"}
RuntimeOutcomes == {"no runtime", "list failed", "no containers",
                    "stopped", "stop failed", "kill failed",
                    "stop and kill failed"}
APIServerOutcomes == {"no process", "no pid", "killed", "kill failed"}
StopInputs == [kubelet : KubeletOutcomes, runtime : RuntimeOutcomes,
               apiserver : APIServerOutcomes, stopOk : BOOLEAN]
StartInputs == {"running", "start failed", "not running"}
NoStop == [kubelet |-> "-", runtime |-> "-", apiserver |-> "-",
           stopOk |-> FALSE]

\* Remove: the result for the answers of DeleteContainer and ContainerID.
RemoveErrTrustsDelete(del, id) ==
    IF del = "is already in progress"
    THEN Wrap(NewError(del), "stuck delete")
    ELSE Nil
RemoveErr(del, id) ==
    IF del = "is already in progress"
    THEN Wrap(NewError(del), "stuck delete")
    ELSE IF del = "No such container:" THEN Nil
    ELSE IF id = "id" THEN NewError("expected no container ID be found")
    ELSE Nil

\* Remove: the oci calls it makes.
RemoveCalls(del) ==
    <<"ContainerID", "DeleteContainer">>
    \o (IF del \in {"is already in progress", "No such container:"}
        THEN <<>> ELSE <<"ContainerID">>)

\* killAPIServerProc: pgrep, then pkill -9 when there is a valid pid.
killAPIServerProcCalls(a) ==
    <<"pgrep">> \o (IF a \in {"killed", "kill failed"} THEN <<"pkill">>
                    ELSE <<>>)
killAPIServerProc(a) ==
    IF a = "kill failed" THEN Wrap(NewError("pkill"), "kill") ELSE Nil

\* Stop: the calls it makes, in order.
StopCalls(in) ==
    <<"Stop kubelet">>
    \o (IF in.kubelet # "stopped" THEN <<"ForceStop kubelet">> ELSE <<>>)
    \o <<"cruntime.New">>
    \o (IF in.runtime # "no runtime" THEN <<"ListContainers">> ELSE <<>>)
    \o (IF in.runtime \in {"stopped", "stop failed", "kill failed",
                           "stop and kill failed"}
        THEN <<"StopContainers", "KillContainers">> ELSE <<>>)
    \o <<"killAPIServerProc">> \o killAPIServerProcCalls(in.apiserver)
    \o <<"docker stop">>

\* Stop: only the error of the stop command is returned.
StopErrFromAPIServer(in) ==
    IF killAPIServerProc(in.apiserver) # Nil
    THEN killAPIServerProc(in.apiserver)
    ELSE Wrap(IF in.stopOk THEN Nil ELSE NewError("exit status"), "stopping")
StopErr(in) ==
    Wrap(IF in.stopOk THEN Nil ELSE NewError("exit status"), "stopping")

\* Start: oci.StartContainer, then checkRunning under retry.Expo.
StartCalls(in) ==
    <<"StartContainer">>
    \o (IF in # "start failed" THEN <<"checkRunning">> ELSE <<>>)
StartErr(in) ==
    CASE in = "running" -> Nil
      [] in = "start failed" -> Wrap(NewError("exit status"), "start")
      [] in = "not running" ->
            NewError("expected container state be running")

\* Restart stops the container unless GetState answered Stopped.
RestartStopsAlways(s) == TRUE
RestartStops(s) == s # "Stopped"

\* Restart: the calls it makes for the state s it saw.
RestartCalls(s, sin, st) ==
    <<"GetState">>
    \o (IF RestartStops(s) THEN <<"Stop">> \o StopCalls(sin) ELSE <<>>)
    \o (IF ~RestartStops(s) \/ StopErr(sin) = Nil
        THEN <<"Start">> \o StartCalls(st) ELSE <<>>)

RestartErr(s, sin, st) ==
    IF ~RestartStops(s) THEN StartErr(st)
    ELSE IF StopErr(sin) # Nil
    THEN NewError("stop during restart") \o StopErr(sin)
    ELSE IF StartErr(st) # Nil
    THEN NewError("start during restart") \o StartErr(st)
    ELSE Nil

\* The container after `docker stop` and after oci.StartContainer.
NodeAfterStop(n, in) == IF in.stopOk THEN "Stopped" ELSE n
NodeAfterStart(n, in) == IF in = "running" THEN Running ELSE n

\* The answers the container allows: a container that is not there can
\* be neither stopped nor started.
CanStop(n, in) == in.stopOk => n # "absent"
CanStart(n, in) == in # "start failed" => n # "absent"

NoOp == [op |-> "none", calls |-> <<>>, err |-> Nil, seen |-> "-",
         del |-> "-", stop |-> NoStop, start |-> "-"]

InitOps ==
    /\ node \in NodeStates
    /\ lastOp = NoOp

\* The driver where these calls are not exercised.
OpDefaults == node = "absent"

\* func (d *Driver) Remove() error
Remove ==
    /\ \E del \in DeleteOutcomes, left \in BOOLEAN, id \in IDOutcomes :
        /\ del = "deleted" => node # "absent"
        /\ del = "No such container:" => node = "absent"
        /\ del = "is already in progress" => node # "absent"
        /\ node' = IF del = "deleted" \/ (del = "other error" /\ ~left)
                   THEN "absent" ELSE node
        /\ id \in (IF node' = "absent" THEN {"error", "empty"}
                   ELSE {"id", "error"})
        /\ lastOp' = [NoOp EXCEPT !.op = "Remove",
                                  !.calls = RemoveCalls(del),
                                  !.del = del,
                                  !.err = RemoveErr(del, id)]
    /\ UNCHANGED <<shVars, kicVars, cacheVars, unitVars, envVars, dlVars,
                   statusVars, flagVars, waitVars>>

\* func (d *Driver) Stop() error
Stop ==
    /\ \E in \in StopInputs :
        /\ CanStop(node, in)
        /\ node' = NodeAfterStop(node, in)
        /\ lastOp' = [NoOp EXCEPT !.op = "Stop", !.calls = StopCalls(in),
                                  !.stop = in, !.err = StopErr(in)]
    /\ UNCHANGED <<shVars, kicVars, cacheVars, unitVars, envVars, dlVars,
                   statusVars, flagVars, waitVars>>

\* func (d *Driver) Start() error
Start ==
    /\ \E in \in StartInputs :
        /\ CanStart(node, in)
        /\ node' = NodeAfterStart(node, in)
        /\ lastOp' = [NoOp EXCEPT !.op = "Start", !.calls = StartCalls(in),
                                  !.start = in, !.err = StartErr(in)]
    /\ UNCHANGED <<shVars, kicVars, cacheVars, unitVars, envVars, dlVars,
                   statusVars, flagVars, waitVars>>

\* func (d *Driver) Restart() error.  GetState answers the container's
\* state, or an error together with some state.
Restart ==
    /\ \E stateOk \in BOOLEAN, s \in {Running, "Stopped", StateNone, StateError},
          sin \in StopInputs \cup {NoStop}, st \in StartInputs :
        LET stops == RestartStops(s)
            starts == ~stops \/ StopErr(sin) = Nil
            afterStop == IF stops THEN NodeAfterStop(node, sin) ELSE node
        IN
        /\ stateOk => (node # "absent" /\ s = node)
        /\ stops => CanStop(node, sin)
        /\ stops <=> sin # NoStop
        /\ starts => CanStart(afterStop, st)
        /\ ~starts => st = "start failed"
        /\ node' = IF starts THEN NodeAfterStart(afterStop, st) ELSE afterStop
        /\ lastOp' = [NoOp EXCEPT !.op = "Restart",
                                  !.calls = RestartCalls(s, sin, st),
                                  !.seen = s,
                                  !.stop = sin,
                                  !.start = IF starts THEN st ELSE "-",
                                  !.err = RestartErr(s, sin, st)]
    /\ UNCHANGED <<shVars, kicVars, cacheVars, unitVars, envVars, dlVars,
                   statusVars, flagVars, waitVars>>

(***************************************************************************)
(* interpretWaitFlag                                                       *)
(***************************************************************************)
\* kverify.AllComponentsList, and the values a user can give to --wait.
AllComponentsList == <<"apiserver", "system_pods", "default_sa">>
Components == {AllComponentsList[i] : i \in DOMAIN AllComponentsList}
WaitValues == Components \cup {"none", "false", "all", "true", "bogus"}
WaitFlags == {<<>>} \cup {<<a>> : a \in WaitValues}
             \cup {<<a, b>> : a \in Components, b \in WaitValues}

\* kverify.DefaultComponents and kverify.AllComponents
DefaultComponents == [c \in Components |-> c = "apiserver"]
AllComponents == [c \in Components |-> TRUE]

\* The loop over waitFlags from index i on: waitComponents[wc] = true for
\* every wc of kverify.AllComponentsList.
RECURSIVE WaitFrom(_, _, _)
WaitFrom(waitFlags, i, m) ==
    IF i > Len(waitFlags) THEN m
    ELSE WaitFrom(waitFlags, i + 1,
                  IF waitFlags[i] \in Components
                  THEN [m EXCEPT ![waitFlags[i]] = TRUE] ELSE m)

\* Which map interpretWaitFlag returns: one of the three shared maps, or
\* the map the loop wrote to.
WaitBranch(changed, getOk, waitFlags) ==
    IF ~changed \/ ~getOk THEN "default"
    ELSE IF Len(waitFlags) = 1 /\ waitFlags[1] \in {"false", "none"}
    THEN "none"
    ELSE IF Len(waitFlags) = 1 /\ waitFlags[1] \in {"true", "all"}
    THEN "all"
    ELSE "list"

\* `waitComponents := kverify.NoComponents` names the shared map itself:
\* the loop's writes are writes to kverify.NoComponents.
NoComponentsAfter(changed, getOk, waitFlags, no) ==
    IF WaitBranch(changed, getOk, waitFlags) = "list"
    THEN WaitFrom(waitFlags, 1, no) ELSE no

interpretWaitFlagResult(changed, getOk, waitFlags, no) ==
    CASE WaitBranch(changed, getOk, waitFlags) = "default" -> DefaultComponents
      [] WaitBranch(changed, getOk, waitFlags) = "none" -> no
      [] WaitBranch(changed, getOk, waitFlags) = "all" -> AllComponents
      [] WaitBranch(changed, getOk, waitFlags) = "list" ->
            NoComponentsAfter(changed, getOk, waitFlags, no)

InitWait ==
    /\ NoComponents = [c \in Components |-> FALSE]
    /\ lastWait = [branch |-> "-", flags |-> <<>>,
                   result |-> [c \in Components |-> FALSE]]

\* func interpretWaitFlag(cmd cobra.Command) map[string]bool
interpretWaitFlag ==
    /\ \E changed, getOk \in BOOLEAN, waitFlags \in WaitFlags :
        /\ NoComponents' =
               NoComponentsAfter(changed, getOk, waitFlags, NoComponents)
        /\ lastWait' =
               [branch |-> WaitBranch(changed, getOk, waitFlags),
                flags |-> waitFlags,
                result |-> interpretWaitFlagResult(changed, getOk, waitFlags,
                                                   NoComponents)]
    /\ UNCHANGED <<shVars, kicVars, cacheVars, unitVars, envVars, dlVars,
                   statusVars, flagVars, opVars>>

(***************************************************************************)
(* Specifications                                                          *)
(***************************************************************************)
Init ==
    /\ InitStartHost /\ InitKic
    /\ InitCache /\ CacheDefaults
    /\ InitUnit /\ UnitDefaults
    /\ InitEnv /\ EnvDefaults
    /\ InitDownloadOnly /\ DownloadOnlyDefaults
    /\ InitStatus
    /\ InitFlags /\ FlagDefaults
    /\ InitOps /\ OpDefaults
    /\ InitWait

Next ==
    \E c \in Calls :
        \/ StartHost(c)
        \/ acquireMachinesLock(c)
        \/ existsCheck(c)
        \/ createHost(c)
        \/ timedCreateHost(c)
        \/ timerFires(c)
        \/ apiCreateReturns(c)
        \/ selectCreateOrTimeout(c)
        \/ postStartSetup(c)
        \/ saveHost(c)
        \/ fixHost(c)
        \/ release(c)

Spec == Init /\ [][Next]_vars

\* The Go scheduler runs every runnable goroutine: the timer goroutine
\* wakes up and sends, and a StartHost whose select has a ready channel or
\* whose deferred release is pending goes on.
Fairness ==
    \A c \in Calls :
        /\ WF_vars(timerFires(c))
        /\ WF_vars(selectCreateOrTimeout(c))
        /\ WF_vars(release(c))

LiveSpec == Init /\ [][Next]_vars /\ Fairness

KicNext ==
    \/ kicCreate
    \/ kicCheckExisting
    \/ kicPrepare
    \/ kicPreload
    \/ kicCreateNode
    \/ kicPrepareSSH
    \/ kicWait

KicInit == Init /\ machines = {} /\ cfgDriver = "docker"

KicSpec == KicInit /\ [][KicNext]_vars

CacheNext ==
    \/ beginCacheKubernetesImages
    \/ CacheImagesForBootstrapper
    \/ waitCacheRequiredImages
    \/ waitCacheRequiredImagesReturns
    \/ beginDownloadKicArtifacts
    \/ downloadKicTask
    \/ waitDownloadKicArtifacts
    \/ waitDownloadKicArtifactsReturns
    \/ handleDownloadOnly
    \/ saveImagesToTarFromConfig

\* The coordinator is used with every driver, both cache-images settings
\* and a default or a custom base image.
CacheInit ==
    /\ InitStartHost /\ machines = {} /\ InitKic /\ InitCache
    /\ InitUnit /\ UnitDefaults
    /\ InitEnv /\ EnvDefaults
    /\ InitDownloadOnly
    /\ InitStatus
    /\ InitFlags /\ FlagDefaults
    /\ InitOps /\ OpDefaults
    /\ InitWait

CacheSpec == CacheInit /\ [][CacheNext]_vars

UnitNext ==
    \/ postStartSetupRun
    \/ postStartSetupMock

UnitInit ==
    /\ InitStartHost /\ machines = {} /\ cfgDriver = "docker" /\ InitKic
    /\ InitCache /\ CacheDefaults
    /\ InitUnit
    /\ InitEnv /\ EnvDefaults
    /\ InitDownloadOnly /\ DownloadOnlyDefaults
    /\ InitStatus
    /\ InitFlags /\ FlagDefaults
    /\ InitOps /\ OpDefaults
    /\ InitWait

UnitSpec == UnitInit /\ [][UnitNext]_vars

EnvNext == engineOptions

EnvInit ==
    /\ InitStartHost /\ machines = {} /\ cfgDriver = "docker" /\ InitKic
    /\ InitCache /\ CacheDefaults
    /\ InitUnit /\ UnitDefaults
    /\ InitEnv
    /\ InitDownloadOnly /\ DownloadOnlyDefaults
    /\ InitStatus
    /\ InitFlags /\ FlagDefaults
    /\ InitOps /\ OpDefaults
    /\ InitWait

EnvSpec == EnvInit /\ [][EnvNext]_vars

StatusNext ==
    \/ statusOfNode
    \/ statusExit

StatusInit == Init /\ machines = {} /\ cfgDriver = "docker"

StatusSpec == StatusInit /\ [][StatusNext]_vars

FlagNext == secondStart

FlagInit ==
    /\ InitStartHost /\ machines = {} /\ cfgDriver = "docker" /\ InitKic
    /\ InitCache /\ CacheDefaults
    /\ InitUnit /\ UnitDefaults
    /\ InitEnv /\ EnvDefaults
    /\ InitDownloadOnly /\ DownloadOnlyDefaults
    /\ InitStatus
    /\ InitFlags
    /\ InitOps /\ OpDefaults
    /\ InitWait

FlagSpec == FlagInit /\ [][FlagNext]_vars

OpNext == Remove \/ Stop \/ Start \/ Restart

OpInit ==
    /\ InitStartHost /\ machines = {} /\ cfgDriver = "docker" /\ InitKic
    /\ InitCache /\ CacheDefaults
    /\ InitUnit /\ UnitDefaults
    /\ InitEnv /\ EnvDefaults
    /\ InitDownloadOnly /\ DownloadOnlyDefaults
    /\ InitStatus
    /\ InitFlags /\ FlagDefaults
    /\ InitOps
    /\ InitWait

OpSpec == OpInit /\ [][OpNext]_vars

WaitNext == interpretWaitFlag

WaitInit == Init /\ machines = {} /\ cfgDriver = "docker"

WaitSpec == WaitInit /\ [][WaitNext]_vars

(***************************************************************************)
(* Properties of StartHost                                                 *)
(***************************************************************************)
HoldsLock(c) == lockHolder[LockKey(cfgName[c])] = c
Acquired(c) == Has(log[c], "Acquire")
\* Past the existence check and before the release of the lock.
InWindow(c) == Has(log[c], "Exists") /\ ~Has(log[c], "Release")
CreateTimeoutErr == Wrap(TimeoutErr, "creating host")

\* C1: two StartHost calls for the same machine name are never both past
\* their existence check and before their lock release.
C1_MutualExclusion ==
    \A a, b \in Calls :
        (a # b /\ cfgName[a] = cfgName[b]) => ~(InWindow(a) /\ InWindow(b))

\* C1 witness: one call is inside its window while another call for the
\* same machine name waits for the lock.
C1_Witness ==
    \E a, b \in Calls :
        /\ a # b
        /\ cfgName[a] = cfgName[b]
        /\ InWindow(a)
        /\ pc[a] = "select"
        /\ pc[b] = "acquire"

\* The lock is acquired once, before anything else the call does, released
\* once, after everything else and only when createHost or fixHost has
\* returned, and held all the time in between.
LockSpansCall(c) ==
    LET l == log[c] IN
    /\ l # <<>> => l[1] = "Acquire"
    /\ Count(l, "Acquire") <= 1
    /\ Count(l, "Release") <= 1
    /\ Has(l, "Release") => (l[Len(l)] = "Release" /\ pc[c] = "done")
    /\ (Has(l, "Acquire") /\ ~Has(l, "Release")) => HoldsLock(c)

C3_ReleasedExactlyOnce ==
    \A c \in Calls :
        /\ releases[c] <= 1
        /\ ~Acquired(c) => releases[c] = 0
        /\ (pc[c] = "done" /\ Acquired(c)) =>
               (releases[c] = 1 /\ ~HoldsLock(c))

\* C3 witness: one call returned a creation timeout and another an
\* existence-query error, each after one release.
C3_Witness ==
    \E a, b \in Calls :
        /\ pc[a] = "done" /\ retErr[a] = CreateTimeoutErr /\ releases[a] = 1
        /\ pc[b] = "done" /\ existsResult[b] = "error" /\ releases[b] = 1

\* C4: when api.Exists answers false, StartHost calls createHost exactly
\* once, fixHost never, and returns existed = false.
C4_CreatePath ==
    \A c \in Calls :
        (pc[c] = "done" /\ existsResult[c] = "false") =>
            /\ Count(log[c], "createHost") = 1
            /\ Count(log[c], "fixHost") = 0
            /\ retExisted[c] = FALSE

\* C4 witness: a call found no machine, created it and returned success.
C4_Witness ==
    \E c \in Calls :
        /\ pc[c] = "done"
        /\ existsResult[c] = "false"
        /\ retErr[c] = Nil
        /\ Has(log[c], "createHost")

\* C5: when api.Exists answers true, StartHost calls neither createHost nor
\* api.NewHost nor api.Create, calls fixHost once and returns existed = true.
C5_FixPath ==
    \A c \in Calls :
        (pc[c] = "done" /\ existsResult[c] = "true") =>
            /\ ~Has(log[c], "createHost")
            /\ ~Has(log[c], "NewHost")
            /\ ~Has(log[c], "Create")
            /\ Count(log[c], "fixHost") = 1
            /\ retExisted[c] = TRUE

\* C5 witness: a call found the machine existing and returned through
\* fixHost.
C5_Witness ==
    \E c \in Calls :
        /\ pc[c] = "done"
        /\ existsResult[c] = "true"
        /\ Has(log[c], "fixHost")
        /\ retExisted[c]

\* C6: a StartHost waiting in timedCreateHost's select for an api.Create
\* that never returns eventually returns the create-timeout error and has
\* released the lock.
C6_CreateTimeout ==
    \A c \in Calls :
        (pc[c] = "select" /\ createHangs[c]) ~>
            (/\ pc[c] = "done"
             /\ retErr[c] = CreateTimeoutErr
             /\ retHost[c] = "nil"
             /\ releases[c] = 1
             /\ ~HoldsLock(c))

\* C6 witness: a call whose api.Create never returns has returned the
\* timeout error.
C6_Witness ==
    \E c \in Calls :
        /\ createHangs[c]
        /\ createTask[c] = "running"
        /\ pc[c] = "done"
        /\ retErr[c] = CreateTimeoutErr

\* C7: timedCreateHost returns nil only after api.Create completed without
\* error, the wrapped creation error only after api.Create completed with
\* that error, and the timeout error only after the timer fired.
C7_SelectOutcome ==
    \A c \in Calls :
        LET r == tchResult[c] IN
        r # Pending =>
            /\ r = Nil => (createTask[c] = "done" /\ createErr[c] = Nil)
            /\ r = TimeoutErr => timerTask[c] = "done"
            /\ (r # Nil /\ r # TimeoutErr) =>
                   /\ createTask[c] = "done"
                   /\ createErr[c] # Nil
                   /\ r = <<"create">> \o createErr[c]

\* C7 witness: creation failed and the timer fired as well; the select took
\* the creation branch and the creation error is what was returned.
C7_Witness ==
    \E c \in Calls :
        /\ createTask[c] = "done"
        /\ createErr[c] # Nil
        /\ timerTask[c] = "done"
        /\ tchResult[c] = <<"create">> \o createErr[c]

\* C9: with no driver registered for cfg.Driver the create path makes no
\* NewHost, Create, postStartSetup or saveHost call, returns a nil host and
\* the unsupported-driver error, and only releases the lock.
C9_UnsupportedDriver ==
    \A c \in Calls :
        (cfgDriver \notin Registered /\ Has(log[c], "createHost")) =>
            /\ ~Has(log[c], "NewHost")
            /\ ~Has(log[c], "Create")
            /\ ~Has(log[c], "postStartSetup")
            /\ ~Has(log[c], "saveHost")
            /\ createTask[c] = "none"
            /\ retHost[c] = "nil"
            /\ retErr[c] = NewError("unsupported/missing driver")
            /\ pc[c] \in {"release", "done"}
            /\ pc[c] = "done" =>
                   /\ log[c] = <<"Acquire", "Exists", "createHost", "Release">>
                   /\ ~HoldsLock(c)

\* C9 witness: a call for an unregistered driver went down the create path
\* and returned.
C9_Witness ==
    \E c \in Calls :
        /\ cfgDriver = "bogus"
        /\ pc[c] = "done"
        /\ log[c] = <<"Acquire", "Exists", "createHost", "Release">>

\* C10: on the create path a non-nil host comes with a non-nil error exactly
\* when post-start setup or saveHost failed; every earlier failure returns a
\* nil host; success returns a non-nil host and a nil error.
C10_HostWithError ==
    \A c \in Calls :
        (pc[c] = "done" /\ Has(log[c], "createHost")) =>
            /\ retErr[c] # Nil =>
                   /\ retHost[c] = "host" <=>
                          retErr[c][1] \in {"post-start", "save"}
                   /\ retHost[c] = "host" <=> Has(log[c], "postStartSetup")
                   /\ retErr[c][1] \in
                          {"unsupported/missing driver", "config", "marshal",
                           "new host", "creating host"} => retHost[c] = "nil"
            /\ retErr[c] = Nil =>
                   (retHost[c] = "host" /\ Has(log[c], "saveHost"))

\* C10 witness: a created host failed post-start setup and was returned
\* together with the error.
C10_Witness ==
    \E c \in Calls :
        /\ pc[c] = "done"
        /\ Has(log[c], "createHost")
        /\ retErr[c] # Nil
        /\ retErr[c][1] = "post-start"
        /\ retHost[c] = "host"


Index(s, e) == CHOOSE i \in DOMAIN s : s[i] = e
Before(s, a, b) == Has(s, a) /\ Has(s, b) /\ Index(s, a) < Index(s, b)

\* C11: post-start setup starts only after the machine was found existing
\* or its api.Create completed without error; inside post-start setup the
\* directory creation comes before the asset sync; saveHost is called only
\* after post-start setup returned success.
C11_StepOrder ==
    \A c \in Calls :
        LET l == log[c] IN
        /\ Has(l, "postStartSetup") =>
               \/ existsResult[c] = "true"
               \/ /\ Before(l, "Create", "postStartSetup")
                  /\ createTask[c] = "done"
                  /\ createErr[c] = Nil
                  /\ cfgName[c] \in machines
        /\ Has(l, "syncLocalAssets") =>
               /\ Before(l, "postStartSetup", "mkdir")
               /\ Before(l, "mkdir", "syncLocalAssets")
        /\ Has(l, "saveHost") =>
               /\ Before(l, "postStartSetup", "saveHost")
               /\ ~IsMock(cfgDriver) => Before(l, "syncLocalAssets", "saveHost")
               /\ retErr[c] # Nil => retErr[c][1] # "post-start"

\* C11 witness: a call created its machine, made the directories, synced
\* the assets and saved the host.
C11_Witness ==
    \E c \in Calls :
        /\ pc[c] = "done"
        /\ retErr[c] = Nil
        /\ Before(log[c], "Create", "postStartSetup")
        /\ Before(log[c], "mkdir", "syncLocalAssets")
        /\ Before(log[c], "syncLocalAssets", "saveHost")

\* C20: a failed lock acquisition or a failed existence query makes
\* StartHost return (nil, false, error) without createHost, fixHost,
\* post-start setup or saveHost; after a failed acquisition api.Exists is
\* not called and nothing is released.
C20_EarlyFailures ==
    \A c \in Calls :
        /\ (pc[c] = "done" /\ ~Acquired(c)) =>
               /\ log[c] = <<>>
               /\ releases[c] = 0
               /\ retHost[c] = "nil"
               /\ retExisted[c] = FALSE
               /\ retErr[c] # Nil
               /\ retErr[c][1] = "boot lock"
        /\ existsResult[c] = "error" =>
               /\ retHost[c] = "nil"
               /\ retExisted[c] = FALSE
               /\ retErr[c] # Nil
               /\ retErr[c][1] = "exists"
               /\ \A e \in {"createHost", "fixHost", "NewHost", "Create",
                            "postStartSetup", "saveHost"} : ~Has(log[c], e)
               /\ createTask[c] = "none"

\* C20 witness: one call failed to get the lock and another failed its
\* existence query; both have returned.
C20_Witness ==
    \E a, b \in Calls :
        /\ pc[a] = "done" /\ ~Acquired(a) /\ retErr[a] # Nil
        /\ pc[b] = "done" /\ existsResult[b] = "error"

\* The context tags of an error chain: every element but the root cause.
Tags(err) == {err[i] : i \in 1..(Len(err) - 1)}

\* C19: every failing step of the create path returns its error wrapped
\* with the step's name: the error StartHost returns has at least one
\* context tag over its cause, and an error from inside post-start setup
\* has the tag of the inner step under the "post-start" tag.
C19_EveryStepTagged ==
    \A c \in Calls :
        (/\ pc[c] = "done"
         /\ existsResult[c] # "true"
         /\ retErr[c] # Nil
         /\ ~DefEmpty(cfgDriver)) =>
            /\ Tags(retErr[c]) # {}
            /\ retErr[c][1] = "post-start" => Len(retErr[c]) >= 3

(***************************************************************************)
(* Properties of kic Driver.Create                                         *)
(***************************************************************************)
\* C8: when Create finds an existing container that minikube did not
\* create, it returns a non-nil error, does not delete the container and
\* neither prepares nor creates a container node.
C8_ConflictPolicy ==
    (kpc = "returned" /\ foundExisting = "user") =>
        /\ kicErr # Nil
        /\ ~Has(kicLog, "DeleteContainer")
        /\ ~Has(kicLog, "PrepareContainerNode")
        /\ ~Has(kicLog, "CreateContainerNode")

\* C21: on the create path saveHost is called only after api.Create
\* completed without error and post-start setup returned success, never
\* after a creation error, a creation timeout or a post-start failure, and
\* only while the calling StartHost holds the machines lock.
C21_SaveOnlyOnSuccess ==
    \A c \in Calls :
        existsResult[c] = "false" =>
            /\ (pc[c] = "saveHost" \/ Has(log[c], "saveHost")) =>
                   /\ createTask[c] = "done"
                   /\ createErr[c] = Nil
                   /\ tchResult[c] = Nil
                   /\ Before(log[c], "Create", "postStartSetup")
                   /\ Before(log[c], "Acquire", "Create")
                   /\ ~IsMock(cfgDriver) => Has(log[c], "syncLocalAssets")
            /\ (retErr[c] # Nil /\ retErr[c] # Pending
                /\ retErr[c][1] \in {"creating host", "post-start"}) =>
                   ~Has(log[c], "saveHost")
            /\ pc[c] = "saveHost" => HoldsLock(c)
            /\ Has(log[c], "saveHost") =>
                   /\ Before(log[c], "postStartSetup", "saveHost")
                   /\ Has(log[c], "Release") =>
                          Before(log[c], "saveHost", "Release")
                   /\ ~Has(log[c], "Release") => HoldsLock(c)

\* C21 witness: a call on the create path has saved the host record and
\* still holds the lock.
C21_Witness ==
    \E c \in Calls :
        /\ existsResult[c] = "false"
        /\ Has(log[c], "saveHost")
        /\ HoldsLock(c)
        /\ createTask[c] = "done"

\* C26 as stated: a StartHost call waiting for the lock is never kept out
\* by a call that holds the lock for a different machine name.
C26_Original ==
    \A a, b \in Calls :
        (/\ a # b
         /\ cfgName[a] # cfgName[b]
         /\ pc[a] = "acquire"
         /\ HoldsLock(b)) => MutexFree(LockKey(cfgName[a]))

\* C26: the lock is the one mutex of <MiniPath>/machines, whatever the
\* machine name: any two StartHost calls contend for it, so no two calls,
\* with equal or different machine names, are both between their
\* existence check and their release.
C26_OneLockForAllNames ==
    /\ \A n, m \in Names : LockKey(n) = LockKey(m)
    /\ \A a, b \in Calls :
        a # b => /\ ~(InWindow(a) /\ InWindow(b))
                 /\ ~(HoldsLock(a) /\ HoldsLock(b))

\* C26 witness: a call for one machine name is at the lock while a call
\* for another machine name holds it.
C26_Witness ==
    \E a, b \in Calls :
        /\ cfgName[a] # cfgName[b]
        /\ pc[a] = "acquire"
        /\ HoldsLock(b)
        /\ InWindow(b)

(***************************************************************************)
(* Properties of the artifact cache coordinator                            *)
(***************************************************************************)
Results(attempts) == [i \in DOMAIN attempts |-> attempts[i].result]

\* C12: the download task tries the primary reference, then fallback 1,
\* then fallback 2; a reference is tried only after every earlier one has
\* failed and none is tried after a success; primary and fallback 1
\* failing and fallback 2 succeeding makes exactly three attempts and the
\* task succeeds.
C12_FallbackOrder ==
    LET n == Len(kicAttempts)
        refs == <<ccBefore.KicBaseImage, BaseImageFallBack1, BaseImageFallBack2>>
    IN
    /\ n <= 3
    /\ \A i \in 1..n :
        /\ kicAttempts[i].ref = refs[i]
        /\ \A j \in 1..(i - 1) : kicAttempts[j].result # "ok"
        /\ kicAttempts[i].result = "ok" =>
               i = n /\ kicTask = "done" /\ kicTaskErr = NilErr
    /\ (kicTask = "done" /\ kicAttempts[n].result # "ok") => n = 3
    /\ kicTask \in RunningStages =>
           \A i \in 1..n : kicAttempts[i].result # "ok"

\* C12 witness: primary and fallback 1 failed, fallback 2 succeeded.
C12_Witness ==
    /\ kicTask = "done"
    /\ Len(kicAttempts) = 3
    /\ kicAttempts[1].result # "ok"
    /\ kicAttempts[2].result # "ok"
    /\ kicAttempts[3].result = "ok"
    /\ kicTaskErr = NilErr

\* C13: waitDownloadKicArtifacts ends in the usage exit exactly when the
\* group's error is a registry login error; any other error is logged and
\* the call returns; without an error it returns and logs nothing.
C13_AuthEscalation ==
    kicWaitSt \in {"returned", "exited"} =>
        /\ kicTaskErr.kind \in {"github", "unauthorized"} =>
               /\ kicWaitSt = "exited"
               /\ mpc = "exited"
               /\ "Please either authenticate to the registry" \in errorLog
        /\ kicTaskErr.kind = "other" =>
               /\ kicWaitSt = "returned"
               /\ "Error downloading kic artifacts" \in errorLog
        /\ kicTaskErr = NilErr =>
               /\ kicWaitSt = "returned"
               /\ "Error downloading kic artifacts" \notin errorLog
               /\ "Please either authenticate to the registry" \notin errorLog

\* C13 witness: the group ended with an UNAUTHORIZED error and the wait
\* exited.
C13_Witness ==
    /\ kicWaitSt = "exited"
    /\ kicTaskErr.kind = "unauthorized"

\* C14: waitCacheRequiredImages returns to its caller for every mix of
\* task outcomes; it never exits the process; a task error is only logged.
C14_BestEffort ==
    /\ cacheWaitSt \in {"no", "called", "returned"}
    /\ mpc = "exited" =>
           (kicWaitSt = "exited" \/ hdo \in {"exit0", "exitErr"})
    /\ (cacheWaitSt = "returned" /\ GroupFailed(cacheTasks)) =>
           "Error caching images" \in errorLog

\* C14 witness: the wait returned for a group with one failed and one
\* successful task.
C14_Witness ==
    /\ cacheWaitSt = "returned"
    /\ mpc = "run"
    /\ \E i, j \in DOMAIN cacheTasks :
          cacheTasks[i] = "failed" /\ cacheTasks[j] = "ok"

\* C15: when a wait function has returned or exited, no task enqueued into
\* its group is still running.
C15_Barrier ==
    /\ cacheWaitSt = "returned" =>
           \A i \in DOMAIN cacheTasks : cacheTasks[i] \in {"ok", "failed"}
    /\ kicWaitSt \in {"returned", "exited"} => kicTask \notin RunningStages

\* C15 witness: both waits returned, the cache group had two tasks and the
\* download task ran.
C15_Witness ==
    /\ cacheWaitSt = "returned"
    /\ Len(cacheTasks) = MaxCacheBegins
    /\ kicWaitSt = "returned"
    /\ kicTask = "done"

\* The tasks a call of beginCacheKubernetesImages added to the group.
Enqueued(i) ==
    cacheBegins[i].tasks - (IF i = 1 THEN 0 ELSE cacheBegins[i - 1].tasks)

\* C16 as stated: with a preload for the pair and no custom repository
\* the call fetches the preload and enqueues nothing; otherwise it
\* enqueues a task exactly when image caching is enabled.
C16_Original ==
    \A i \in DOMAIN cacheBegins :
        LET b == cacheBegins[i] IN
        IF b.preloadExists /\ b.repo = ""
        THEN b.fetched /\ Enqueued(i) = 0
        ELSE ~b.fetched /\ (Enqueued(i) = 1 <=> cacheImagesFlag)

\* C16: with a preload for the pair and no custom repository the call
\* fetches the preload, and enqueues nothing if the fetch succeeds; when
\* the fetch fails, and in every other case, it enqueues one task exactly
\* when image caching is enabled.
C16_PreloadOrTask ==
    /\ Len(cacheTasks) =
           (IF cacheBegins = <<>> THEN 0
            ELSE cacheBegins[Len(cacheBegins)].tasks)
    /\ \A i \in DOMAIN cacheBegins :
        LET b == cacheBegins[i] IN
        /\ Enqueued(i) \in {0, 1}
        /\ b.fetched <=> (b.preloadExists /\ b.repo = "")
        /\ (b.fetched /\ b.preloadOk) => Enqueued(i) = 0
        /\ ~(b.fetched /\ b.preloadOk) =>
               (Enqueued(i) = 1 <=> cacheImagesFlag)

\* C16 witness: one call fetched the preload and enqueued nothing, and
\* another whose fetch failed enqueued a task.
C16_Witness ==
    \E i, j \in DOMAIN cacheBegins :
        /\ cacheBegins[i].fetched /\ cacheBegins[i].preloadOk
        /\ Enqueued(i) = 0
        /\ cacheBegins[j].fetched /\ ~cacheBegins[j].preloadOk
        /\ Enqueued(j) = 1

C22_DownloadOnly ==
    /\ hdo = "exit0" =>
           /\ downloadOnly
           /\ hdoLog = <<"doCacheBinaries", "CacheKubectlBinary",
                         "waitCacheRequiredImages",
                         "waitDownloadKicArtifacts",
                         "saveImagesToTarFromConfig">>
           /\ cacheWaitSt = "returned"
           /\ kicWaitSt = "returned"
           /\ GroupDone(cacheTasks)
           /\ GroupDone(KicGroup)
           /\ mpc = "exited"
    /\ \A e \in {"doCacheBinaries failed", "CacheKubectlBinary failed",
                 "saveImagesToTarFromConfig failed"} :
           Has(hdoLog, e) =>
               /\ hdo = "exitErr"
               /\ mpc = "exited"
               /\ hdoLog[Len(hdoLog)] = e
    /\ ~downloadOnly =>
           /\ hdo \in {"no", "returned"}
           /\ hdoLog = <<>>
    /\ hdo = "returned" => ~downloadOnly

\* C22 witness: handleDownloadOnly exited with code 0 after both groups
\* had tasks that resolved.
C22_Witness ==
    /\ hdo = "exit0"
    /\ cacheTasks # <<>>
    /\ kicTask = "done"

(***************************************************************************)
(* Properties of postStartSetup on one unit                                *)
(***************************************************************************)
\* C23: postStartSetup for a non-mock driver returns an error exactly when
\* the command runner, the directory creation or the asset sync fails;
\* what the OS release step finds changes neither the result nor whether
\* syncLocalAssets is called.
C23_ErrorIffStepFails ==
    (setupRuns > 0 /\ ~IsMock(lastSetup.driver)) =>
        LET r == lastSetup IN
        /\ r.err # Nil <=> (~r.runnerOk \/ ~r.cmdOk \/ ~r.syncOk)
        /\ Has(r.calls, "syncLocalAssets") <=> (r.runnerOk /\ r.cmdOk)
        /\ r.err = postStartSetupErr(r.driver, r.runnerOk, r.cmdOk, r.syncOk)

\* C23 witness: a run whose OS release step failed still synced the
\* assets and returned nil.
C23_Witness ==
    /\ setupRuns > 0
    /\ ~IsMock(lastSetup.driver)
    /\ ~lastSetup.osOk
    /\ Has(lastSetup.calls, "logRemoteOsRelease")
    /\ Has(lastSetup.calls, "syncLocalAssets")
    /\ lastSetup.err = Nil

\* C27: postStartSetup for a mock driver returns nil and calls nothing: no
\* command runner, no command in the unit, no OS release, no asset sync.
C27_MockShortCircuit ==
    (setupRuns > 0 /\ lastSetup.driver = "mock") =>
        /\ lastSetup.err = Nil
        /\ lastSetup.calls = <<>>
        /\ unitDirs = lastSetup.dirsBefore

\* C27 witness: postStartSetup ran for a mock driver in an environment
\* where the runner, the command and the sync would all have failed.
C27_Witness ==
    /\ setupRuns > 0
    /\ lastSetup.driver = "mock"
    /\ ~lastSetup.runnerOk /\ ~lastSetup.cmdOk /\ ~lastSetup.syncOk
    /\ lastSetup.err = Nil

\* C28: after a successful non-mock postStartSetup all ten required
\* directories exist; a run on a unit that already has them does not fail
\* in the directory step when the command can be run, and leaves the set
\* of directories as it was.
C28_RequiredDirectories ==
    /\ Cardinality(Required) = 10
    /\ (setupRuns > 0 /\ ~IsMock(lastSetup.driver)) =>
        LET r == lastSetup IN
        /\ r.err = Nil => Required \subseteq unitDirs
        /\ r.dirsBefore \subseteq unitDirs
        /\ Required \subseteq r.dirsBefore =>
               /\ unitDirs = r.dirsBefore
               /\ (r.runnerOk /\ r.cmdOk /\ r.syncOk) => r.err = Nil
               /\ (r.runnerOk /\ r.cmdOk) =>
                      (r.err = Nil \/ r.err[1] # "sudo mkdir")

\* C28 witness: a second successful run on a unit that already had the
\* ten directories.
C28_Witness ==
    /\ setupRuns >= 2
    /\ ~IsMock(lastSetup.driver)
    /\ Required \subseteq lastSetup.dirsBefore
    /\ Has(lastSetup.calls, "mkdir")
    /\ lastSetup.err = Nil
    /\ unitDirs = lastSetup.dirsBefore

\* C25: when Create finds an existing container that minikube created, it
\* issues the delete before any preparation or creation step, goes on to
\* PrepareContainerNode and, when that succeeds, CreateContainerNode in
\* the same call, and does not return the conflicting-container error.
C25_DeleteThenRecreate ==
    foundExisting = "minikube" =>
        /\ Has(kicLog, "DeleteContainer")
        /\ Has(kicLog, "PrepareContainerNode") =>
               Before(kicLog, "DeleteContainer", "PrepareContainerNode")
        /\ Has(kicLog, "CreateContainerNode") =>
               Before(kicLog, "DeleteContainer", "CreateContainerNode")
        /\ kpc = "returned" =>
               /\ Has(kicLog, "PrepareContainerNode")
               /\ kicErr # Nil =>
                      kicErr[1] # "user has a conflicting container name"
               /\ ~Has(kicLog, "CreateContainerNode") =>
                      kicErr = Wrap(NewError("volume"),
                                    "setting up container node")

\* C25 witness: Create deleted minikube's old container, created the node
\* and returned nil.
C25_Witness ==
    /\ foundExisting = "minikube"
    /\ kpc = "returned"
    /\ kicErr = Nil
    /\ Before(kicLog, "DeleteContainer", "PrepareContainerNode")
    /\ Before(kicLog, "PrepareContainerNode", "CreateContainerNode")

(***************************************************************************)
(* Properties of engineOptions                                             *)
(***************************************************************************)
Range(xs) == {xs[i] : i \in DOMAIN xs}
FirstIndex(xs, e) ==
    CHOOSE i \in DOMAIN xs : xs[i] = e /\ \A j \in 1..(i - 1) : xs[j] # e

\* C24: the Env list of engineOptions has every distinct entry of the
\* input exactly once, in the order of the first occurrences; removing
\* duplicates from it again changes nothing; it is never longer than the
\* input.
C24_DedupIdempotent ==
    uniqueEnvs # Unset =>
        LET xs == proxyEnv \o cfgDockerEnv
            ys == uniqueEnvs
        IN
        /\ Dedup(ys) = ys
        /\ Dedup(Dedup(xs)) = Dedup(xs)
        /\ Len(ys) <= Len(xs)
        /\ Range(ys) = Range(xs)
        /\ \A e \in Range(xs) : Count(ys, e) = 1
        /\ \A i, j \in DOMAIN ys :
               i < j => FirstIndex(xs, ys[i]) < FirstIndex(xs, ys[j])

\* C24 witness: an entry of the proxy list is repeated in cfg.DockerEnv,
\* after another entry, and the result is shorter than the input.
C24_Witness ==
    /\ uniqueEnvs # Unset
    /\ Len(uniqueEnvs) = 2
    /\ Len(proxyEnv \o cfgDockerEnv) = 2 * MaxEnvLen
    /\ \E i \in DOMAIN cfgDockerEnv : cfgDockerEnv[i] = proxyEnv[1]
    /\ proxyEnv[1] # proxyEnv[Len(proxyEnv)]

(***************************************************************************)
(* Properties of the status command                                        *)
(***************************************************************************)
HostBad(st) == st.Host # Running
ClusterBad(st) ==
    st.Kubelet # Running \/ st.APIServer \notin {Running, Irrelevant}
KubeconfigBad(st) == st.Kubeconfig \notin {Configured, Irrelevant}

C30_SoftStartKeepsConfig ==
    (updated /\ changedFlags = {} /\ existingCfg.NodePort # "0") =>
        /\ updatedCfg = existingCfg
        /\ updatedCfg.NodePort = existingCfg.NodePort

\* C30 witness: a second start without changed flags on a config whose
\* port differs from the flag's default.
C30_Witness ==
    /\ updated
    /\ changedFlags = {}
    /\ existingCfg.NodePort # "0"
    /\ viper.apiServerPort # existingCfg.NodePort
    /\ updatedCfg = existingCfg

\* C31: at most one api.Create call for a given machine name is in progress
\* at any time, also when a StartHost call starts after an earlier call for
\* the same name returned with a creation timeout.
C31_OneCreatePerName ==
    \A c, d \in Calls :
        (c # d /\ createTask[c] = "running" /\ createTask[d] = "running")
            => cfgName[c] # cfgName[d]

\* C32: neither helper goroutine of timedCreateHost blocks on its send:
\* each channel has room for the one value its goroutine sends, whichever
\* branch the select took and whether or not the caller still receives.
C32_SendsNeverBlock ==
    \A c \in Calls :
        /\ timerTask[c] = "sleeping" => timeout[c] < ChanCap
        /\ createTask[c] = "running" => createFinished[c] < ChanCap
        /\ timeout[c] <= ChanCap /\ createFinished[c] <= ChanCap
        /\ ENABLED timerFires(c) <=> timerTask[c] = "sleeping"
        /\ ENABLED apiCreateReturns(c)
               <=> (createTask[c] = "running" /\ ~createHangs[c])

\* C32 witness: both goroutines have sent and finished, the select took
\* one of the values and nobody will receive the other.
C32_Witness ==
    \E c \in Calls :
        /\ pc[c] = "done"
        /\ timerTask[c] = "done"
        /\ createTask[c] = "done"
        /\ timeout[c] + createFinished[c] = 1

\* C33: when the primary, fallback 1 and fallback 2 acquisitions all fail
\* and at least one of them failed with a login error of the registry,
\* waitDownloadKicArtifacts exits with the authentication message instead
\* of returning.
C33_AuthAlwaysEscalates ==
    LET n == Len(kicAttempts) IN
    (/\ kicWaitSt \in {"returned", "exited"}
     /\ n = 3
     /\ \A i \in 1..n : kicAttempts[i].result # "ok"
     /\ \E i \in 1..n : kicAttempts[i].result \in {"github", "unauthorized"})
        => kicWaitSt = "exited"

\* C34: with --download-only, handleDownloadOnly never exits with code 0
\* after a base-image download task resolved with a failure.
C34_ExitZeroMeansAcquired ==
    hdo = "exit0" => ~(kicTask = "done" /\ kicTaskErr # NilErr)

\* C35 as stated: a task is started only for the docker driver and only
\* when the configured base image is not in the local daemon.
C35_Original ==
    kicTask = "primary" =>
        (cc.Driver = "docker" /\ cc.KicBaseImage \notin daemonImages)

\* C35: beginDownloadKicArtifacts starts a task only for the docker driver
\* and only when ExistsImageInDaemon finds no base image: the listing of
\* the daemon's images failed or does not have the configured reference.
\* When a started task resolves successfully, cc.KicBaseImage is the
\* reference whose acquisition succeeded, which is then in the daemon.
C35_StartedAndRecorded ==
    LET n == Len(kicAttempts) IN
    /\ kicTask \notin {"unbegun", "skipped"} => cc.Driver = "docker"
    /\ kicTask = "primary" =>
           /\ n = 0
           /\ imagesListed = "failed" \/ cc.KicBaseImage \notin daemonImages
    /\ (kicTask = "done" /\ kicTaskErr = NilErr) =>
           /\ n \in 1..3
           /\ kicAttempts[n].result = "ok"
           /\ cc.KicBaseImage = kicAttempts[n].ref
           /\ cc.KicBaseImage =
                  <<ccBefore.KicBaseImage, BaseImageFallBack1,
                    BaseImageFallBack2>>[n]
           /\ cc.KicBaseImage \in daemonImages

\* C35 witness: the task resolved successfully on fallback 2.
C35_Witness ==
    /\ kicTask = "done"
    /\ kicTaskErr = NilErr
    /\ Len(kicAttempts) = 3
    /\ cc.KicBaseImage = BaseImageFallBack2
    /\ BaseImageFallBack2 \in daemonImages

\* C36: status() reports no conflicting component states: without a record
\* of the host all four fields are Nonexistent; for a host that exists and
\* is not Running, Kubelet, APIServer and Kubeconfig equal the host state;
\* Kubelet Running, APIServer Running and Kubeconfig Configured appear only
\* with Host Running.
C36_NoConflictingStates ==
    \A i \in DOMAIN statuses :
        LET st == statuses[i]
            h == hostStatuses[i]
        IN
        /\ (h.ok /\ h.hs = StateNone) =>
               /\ st.Host = Nonexistent /\ st.Kubelet = Nonexistent
               /\ st.APIServer = Nonexistent /\ st.Kubeconfig = Nonexistent
        /\ (h.ok /\ h.hs \notin {StateNone, Running}) =>
               /\ st.Host = h.hs /\ st.Kubelet = h.hs
               /\ st.APIServer = h.hs /\ st.Kubeconfig = h.hs
        /\ (\/ st.Kubelet = Running
            \/ st.APIServer = Running
            \/ st.Kubeconfig = Configured) => st.Host = Running

\* C36 witness: one node whose host is stopped and one fully running
\* control plane have been reported.
C36_Witness ==
    /\ Len(statuses) = 2
    /\ hostStatuses[1] = [ok |-> TRUE, hs |-> "Stopped"]
    /\ statuses[1].Kubelet = "Stopped"
    /\ statuses[2].Host = Running
    /\ statuses[2].APIServer = Running
    /\ statuses[2].Kubeconfig = Configured

(***************************************************************************)
(* Properties of kic Driver.Remove, Restart and Stop                       *)
(***************************************************************************)
\* C37: Remove returns nil only if no container with the machine name is
\* left; a delete error with "is already in progress" gives a "stuck
\* delete" error and one with "No such container:" gives nil.
C37_NilMeansAbsent ==
    lastOp.op = "Remove" =>
        /\ lastOp.err = Nil => node = "absent"
        /\ lastOp.del = "is already in progress" =>
               Has(lastOp.err, "stuck delete")
        /\ lastOp.del = "No such container:" => lastOp.err = Nil

\* The calls Restart itself makes, without those of Stop and Start.
IsDriverCall(x) == x \in {"GetState", "Stop", "Start"}
DriverCalls(calls) == SelectSeq(calls, IsDriverCall)

\* C38: Restart calls only Start when the state it got is Stopped;
\* otherwise it calls Stop and then Start, and Start only when Stop
\* returned nil; it returns nil only if that Start returned nil.
C38_RestartOrder ==
    lastOp.op = "Restart" =>
        LET top == DriverCalls(lastOp.calls) IN
        /\ lastOp.seen = "Stopped" => top = <<"GetState", "Start">>
        /\ lastOp.seen # "Stopped" =>
               /\ lastOp.stop.stopOk => top = <<"GetState", "Stop", "Start">>
               /\ ~lastOp.stop.stopOk => top = <<"GetState", "Stop">>
        /\ lastOp.err = Nil =>
               /\ top[Len(top)] = "Start"
               /\ lastOp.start = "running"

\* C38 witness: a restart of a stopped container that called Start only
\* and left the container running.
C38_Witness ==
    /\ lastOp.op = "Restart"
    /\ lastOp.seen = "Stopped"
    /\ lastOp.err = Nil
    /\ ~Has(lastOp.calls, "docker stop")
    /\ node = Running

\* C39: Stop issues the container stop command whatever failed before it
\* (kubelet stop and force stop, the container runtime, listing, stopping
\* and killing the inner containers, killing the API server process), and
\* returns an error exactly when that command fails.
C39_StopAlwaysStops ==
    lastOp.op = "Stop" =>
        /\ lastOp.calls[Len(lastOp.calls)] = "docker stop"
        /\ Count(lastOp.calls, "docker stop") = 1
        /\ lastOp.err # Nil <=> ~lastOp.stop.stopOk

\* C39 witness: every earlier step failed, the stop command ran and Stop
\* returned nil.
C39_Witness ==
    /\ lastOp.op = "Stop"
    /\ lastOp.stop = [kubelet |-> "force stop failed",
                      runtime |-> "stop and kill failed",
                      apiserver |-> "kill failed", stopOk |-> TRUE]
    /\ lastOp.err = Nil
    /\ node = "Stopped"

(***************************************************************************)
(* Properties of interpretWaitFlag                                         *)
(***************************************************************************)
\* C40: interpretWaitFlag does not modify the shared component maps: after
\* any calls kverify.NoComponents enables no component, so a call with
\* --wait=none or --wait=false returns a map that enables none.
C40_NoComponentsUntouched ==
    /\ \A c \in Components : ~NoComponents[c]
    /\ lastWait.branch = "none" => \A c \in Components : ~lastWait.result[c]

\* C18: on every return of Create after the preload extraction task was
\* started, the task has finished; a failed extraction alone does not make
\* Create fail.
C18_PreloadJoined ==
    /\ kpc = "returned" => preloadTask # "running"
    /\ (kpc = "returned" /\ preloadTask = "failed" /\ kicErr # Nil) =>
           kicErr \in {Wrap(NewError("run"), "create kic node"),
                       Wrap(NewError("ssh"), "prepare kic ssh")}

====
